---------------------------- MODULE Spec2Model ----------------------------
(***************************************************************************)
(* Responsive audit (plugins/rubot/scripts/responsive_audit.py).           *)
(*                                                                         *)
(* Text is modelled at character level: a string is a sequence of          *)
(* one-character strings, so that the regular expressions and the string   *)
(* methods of the script are computed, not assumed.                        *)
(***************************************************************************)
EXTENDS Integers, Sequences, FiniteSets, TLC

(***************************************************************************)
(* Characters.                                                             *)
(***************************************************************************)
Digits == {"0", "1", "2", "3", "4", "5", "6", "7", "8", "9"}

LowerSeq == <<"a", "b", "c", "d", "e", "f", "g", "h", "i", "j", "k", "l", "m",
              "n", "o", "p", "q", "r", "s", "t", "u", "v", "w", "x", "y", "z">>

UpperSeq == <<"A", "B", "C", "D", "E", "F", "G", "H", "I", "J", "K", "L", "M",
              "N", "O", "P", "Q", "R", "S", "T", "U", "V", "W", "X", "Y", "Z">>

LowerLetters == {LowerSeq[i] : i \in DOMAIN LowerSeq}

UpperLetters == {UpperSeq[i] : i \in DOMAIN UpperSeq}

\* \w of the re module
WordChars == Digits \cup LowerLetters \cup UpperLetters \cup {"_"}

\* \s of the re module, and the characters str.strip() / str.split() remove
Whitespace == {" ", "\t", "\n", "\r", "\f"}

\* case folding under re.IGNORECASE
lower(c) ==
    IF c \in UpperLetters
    THEN LowerSeq[CHOOSE i \in DOMAIN UpperSeq : UpperSeq[i] = c]
    ELSE c

\* the character ` (U+0060), which a TLA+ string cannot hold
BackTick == "<backtick>"

\* ASCII order of the printable characters, for comparing strings
AsciiSeq == <<" ", "!", "\"", "#", "$", "%", "&", "'", "(", ")", "*", "+", ",",
              "-", ".", "/", "0", "1", "2", "3", "4", "5", "6", "7", "8", "9",
              ":", ";", "<", "=", ">", "?", "@">>
            \o UpperSeq \o <<"[", "\\", "]", "^", "_", BackTick>>
            \o LowerSeq \o <<"{", "|", "}", "~">>

ord(c) == CHOOSE i \in DOMAIN AsciiSeq : AsciiSeq[i] = c

(***************************************************************************)
(* Python str methods used by the script.                                  *)
(***************************************************************************)
\* s[:n]
Prefix(s, n) == IF Len(s) <= n THEN s ELSE SubSeq(s, 1, n)

startswith(s, p) == Len(p) <= Len(s) /\ SubSeq(s, 1, Len(p)) = p

endswith(s, suffix) ==
    Len(suffix) <= Len(s) /\ SubSeq(s, Len(s) - Len(suffix) + 1, Len(s)) = suffix

\* the least element of a non-empty set of integers
Min(S) == CHOOSE x \in S : \A y \in S : x <= y

Max(S) == CHOOSE x \in S : \A y \in S : x >= y

\* s.strip(): without the leading and the trailing whitespace
strip(s) ==
    LET kept == {i \in DOMAIN s : s[i] \notin Whitespace} IN
    IF kept = {} THEN <<>> ELSE SubSeq(s, Min(kept), Max(kept))

\* the positions of s that satisfy Test, in increasing order
Positions(s, Test(_)) == SelectSeq([i \in DOMAIN s |-> i], Test)

\* s.split(sep) for a one-character separator: keeps empty fields
SplitOn(s, sep) ==
    LET at == Positions(s, LAMBDA i : s[i] = sep) IN
    [k \in 1..(Len(at) + 1) |->
        SubSeq(s, IF k = 1 THEN 1 ELSE at[k - 1] + 1,
                  IF k > Len(at) THEN Len(s) ELSE at[k] - 1)]

\* s.split(): the maximal runs of non-whitespace characters
split(s) ==
    LET starts == Positions(s, LAMBDA i : s[i] \notin Whitespace
                                          /\ (i = 1 \/ s[i - 1] \in Whitespace))
        ends == Positions(s, LAMBDA i : s[i] \notin Whitespace
                                        /\ (i = Len(s) \/ s[i + 1] \in Whitespace))
    IN  [k \in DOMAIN starts |-> SubSeq(s, starts[k], ends[k])]

\* x in list
In(x, list) == \E i \in DOMAIN list : list[i] = x

\* list.index(x): position (0-based) of the first occurrence
index(list, x) == Min({i \in DOMAIN list : list[i] = x}) - 1

isdigit(s) == s # <<>> /\ \A i \in DOMAIN s : s[i] \in Digits

DigitVal(c) == ord(c) - ord("0")

RECURSIVE int(_)
int(s) == IF s = <<>> THEN 0 ELSE 10 * int(SubSeq(s, 1, Len(s) - 1)) + DigitVal(s[Len(s)])

\* "sep".join(parts)
RECURSIVE join(_, _)
join(sep, parts) ==
    IF parts = <<>> THEN <<>>
    ELSE IF Len(parts) = 1 THEN parts[1]
    ELSE parts[1] \o sep \o join(sep, Tail(parts))

\* s < t for strings (lexicographic by character code)
RECURSIVE StrLess(_, _)
StrLess(s, t) ==
    IF t = <<>> THEN FALSE
    ELSE IF s = <<>> THEN TRUE
    ELSE IF Head(s) = Head(t) THEN StrLess(Tail(s), Tail(t))
    ELSE ord(Head(s)) < ord(Head(t))

(***************************************************************************)
(* The re module: a backtracking matcher.  A pattern is a sequence of      *)
(* items.  Match(re, s, i, g, ic) is the match of the items re at position *)
(* i that the backtracking engine finds first: each quantifier tries its   *)
(* repetition counts in its order (greedy: longest first; lazy: shortest   *)
(* first), each group its alternatives left to right, and the first way    *)
(* for which the rest of the pattern matches is taken.  Positions are      *)
(* 1-based: the match [b, e) covers s[b] .. s[e-1]; g is the span of the   *)
(* capturing group; ic is re.IGNORECASE.                                   *)
(***************************************************************************)
Item(t, cs, neg, q, str, alts, cap, start) ==
    [t |-> t, cs |-> cs, neg |-> neg, q |-> q, str |-> str, alts |-> alts,
     cap |-> cap, start |-> start]

\* a character class with a quantifier: q is "one", "star", "plus", "opt" or "lazy" (*?)
Cls(cs, neg, q) == Item("cls", cs, neg, q, <<>>, <<>>, FALSE, 0)

Ch(c) == Cls({c}, FALSE, "one")

\* a literal string
Lit(str) == <<Item("lit", {}, FALSE, "one", str, <<>>, FALSE, 0)>>

\* \b
WordB == Item("wb", {}, FALSE, "one", <<>>, <<>>, FALSE, 0)

\* ( a | b | ... ) capturing, (?: a | b | ... ) not
Group(alts, cap) == Item("grp", {}, FALSE, "one", <<>>, alts, cap, 0)

\* the end of a group that began at position start
EndGroup(cap, start) == Item("end", {}, FALSE, "one", <<>>, <<>>, cap, start)

CharEq(c, d, ic) == IF ic THEN lower(c) = lower(d) ELSE c = d

CharMatches(a, c, ic) == (\E d \in a.cs : CharEq(d, c, ic)) # a.neg

LitAt(str, s, i, ic) ==
    /\ i + Len(str) - 1 <= Len(s)
    /\ \A j \in DOMAIN str : CharEq(str[j], s[i + j - 1], ic)

\* the number of consecutive characters from position i on that a matches
RunLen(a, s, i, ic) ==
    LET stops == {j \in i..Len(s) : ~CharMatches(a, s[j], ic)} IN
    IF stops = {} THEN Len(s) - i + 1 ELSE Min(stops) - i

\* the repetition counts a quantifier tries, in order, when n characters match
Counts(q, n) ==
    CASE q = "one"  -> IF n >= 1 THEN <<1>> ELSE <<>>
      [] q = "opt"  -> IF n >= 1 THEN <<1, 0>> ELSE <<0>>
      [] q = "star" -> [j \in 1..(n + 1) |-> n + 1 - j]
      [] q = "plus" -> [j \in 1..n |-> n + 1 - j]
      [] q = "lazy" -> [j \in 1..(n + 1) |-> j - 1]

IsWord(s, i) == i >= 1 /\ i <= Len(s) /\ s[i] \in WordChars

AtWordBoundary(s, i) == IsWord(s, i - 1) # IsWord(s, i)

NoMatch == [found |-> FALSE, b |-> 0, e |-> 0, g |-> <<0, 0>>]

\* the first of the matches tries that is one
FirstFound(tries) ==
    LET ok == {j \in DOMAIN tries : tries[j].found} IN
    IF ok = {} THEN NoMatch ELSE tries[Min(ok)]

RECURSIVE Match(_, _, _, _, _)
Match(re, s, i, g, ic) ==
    IF re = <<>> THEN [found |-> TRUE, b |-> 0, e |-> i, g |-> g]
    ELSE LET a == Head(re)
             rest == Tail(re)
         IN
         CASE a.t = "lit" ->
                IF LitAt(a.str, s, i, ic) THEN Match(rest, s, i + Len(a.str), g, ic) ELSE NoMatch
           [] a.t = "wb" ->
                IF AtWordBoundary(s, i) THEN Match(rest, s, i, g, ic) ELSE NoMatch
           [] a.t = "cls" ->
                LET cnts == Counts(a.q, IF a.q \in {"one", "opt"}
                                        THEN (IF i <= Len(s) /\ CharMatches(a, s[i], ic) THEN 1 ELSE 0)
                                        ELSE RunLen(a, s, i, ic))
                IN  FirstFound(<<>> \o [j \in DOMAIN cnts |-> Match(rest, s, i + cnts[j], g, ic)])
           [] a.t = "grp" ->
                FirstFound(<<>> \o [j \in DOMAIN a.alts |->
                    Match(a.alts[j] \o <<EndGroup(a.cap, i)>> \o rest, s, i, g, ic)])
           [] a.t = "end" ->
                Match(rest, s, i, IF a.cap THEN <<a.start, i>> ELSE g, ic)

\* the characters a match of re can start with: all of them (any), or those of cs
RECURSIVE FirstChars(_)
FirstChars(re) ==
    IF re = <<>> THEN [any |-> TRUE, cs |-> {}]
    ELSE IF Head(re).t = "wb" THEN FirstChars(Tail(re))
    ELSE IF Head(re).t = "lit" /\ Head(re).str # <<>>
         THEN [any |-> FALSE, cs |-> {Head(re).str[1]}]
    ELSE IF Head(re).t = "cls" /\ Head(re).q \in {"one", "plus"} /\ ~Head(re).neg
         THEN [any |-> FALSE, cs |-> Head(re).cs]
    ELSE [any |-> TRUE, cs |-> {}]

\* the positions from i on where a match of re can start, in increasing order
Starts(re, s, i, ic) ==
    LET first == FirstChars(re) IN
    SelectSeq([j \in 1..(Len(s) + 1) |-> j],
              LAMBDA j : /\ j >= i
                         /\ \/ first.any
                            \/ j <= Len(s) /\ \E d \in first.cs : CharEq(d, s[j], ic))

\* the leftmost match starting at position i or later
SearchFrom(re, s, i, ic) ==
    LET starts == Starts(re, s, i, ic)
        m == FirstFound(<<>> \o [k \in DOMAIN starts |->
                 [Match(re, s, starts[k], <<0, 0>>, ic) EXCEPT !.b = starts[k]]])
    IN  m

\* re.search(pattern, s) is not None; ic is re.IGNORECASE
search(re, s, ic) == SearchFrom(re, s, 1, ic).found

HasGroup(re) == \E k \in DOMAIN re : re[k].t = "grp" /\ re[k].cap

\* re.findall(pattern, s): the non-overlapping matches left to right; the
\* group's text when the pattern has a group, the whole match otherwise
RECURSIVE FindAllFrom(_, _, _)
FindAllFrom(re, s, pos) ==
    LET m == SearchFrom(re, s, pos, FALSE) IN
    IF ~m.found THEN <<>>
    ELSE <<IF HasGroup(re)
           THEN (IF m.g = <<0, 0>> THEN <<>> ELSE SubSeq(s, m.g[1], m.g[2] - 1))
           ELSE SubSeq(s, m.b, m.e - 1)>>
         \o FindAllFrom(re, s, IF m.e > m.b THEN m.e ELSE m.e + 1)

findall(re, s) == FindAllFrom(re, s, 1)

(***************************************************************************)
(* Data model: Severity, Category, Violation, AuditResult.                 *)
(***************************************************************************)
\* class Severity: the enum members' values
Severity == {"warning", "critical"}

\* class Category: the enum members' values, in definition order
CategorySeq == <<"breakpoint_compliance", "hardcoded_size", "layout_antipattern",
                 "responsive_coverage", "flex_grid_pattern", "inline_style">>

Category == {CategorySeq[i] : i \in DOMAIN CategorySeq}

\* Violation(file_path=..., line_number=..., category=..., severity=..., rule=...,
\* snippet=..., message=...).  A message is the f-string's text with a {} where
\* it interpolates, and the interpolated string.
Violation(file_path, line_number, category, severity, rule, snippet, message) ==
    [file_path |-> file_path, line_number |-> line_number, category |-> category,
     severity |-> severity, rule |-> rule, snippet |-> snippet, message |-> message]

Msg(fmt, arg) == [fmt |-> fmt, arg |-> arg]

\* AuditResult(): violations = [], files_scanned = 0
AuditResult == [violations |-> <<>>, files_scanned |-> 0]

\* a variant of add_violation that puts the violation at the front of the list
AddInFront(result, violation) ==
    [result EXCEPT !.violations = <<violation>> \o @]

\* a variant of add_violation that keeps only the violation added last
AddReplacing(result, violation) ==
    [result EXCEPT !.violations = <<violation>>]

\* self.violations.append(violation)
add_violation(result, violation) ==
    [result EXCEPT !.violations = Append(@, violation)]

\* list[:-1]
Front(list) == SubSeq(list, 1, Len(list) - 1)

\* result.add_violation(...) for each violation of found, in order
RECURSIVE add_violations(_, _)
add_violations(result, found) ==
    IF found = <<>> THEN result
    ELSE add_violation(add_violations(result, Front(found)), found[Len(found)])

\* a variant of total_violations that counts the distinct violations
TotalDistinct(result) ==
    Cardinality({result.violations[i] : i \in DOMAIN result.violations})

total_violations(result) == Len(result.violations)

\* a variant of critical_count that depends on the order of the list: the
\* Criticals that precede the first Warning
CriticalBeforeWarning(result) ==
    Cardinality({i \in DOMAIN result.violations :
        \A j \in 1..i : result.violations[j].severity = "critical"})

critical_count(result) ==
    Cardinality({i \in DOMAIN result.violations : result.violations[i].severity = "critical"})

warning_count(result) ==
    Cardinality({i \in DOMAIN result.violations : result.violations[i].severity = "warning"})

\* a variant of violations_by_category with keys only for the categories that occur
CountsOfSeen(result) ==
    [cat \in {result.violations[i].category : i \in DOMAIN result.violations} |->
        Cardinality({i \in DOMAIN result.violations : result.violations[i].category = cat})]

\* counts = {cat.value: 0 for cat in Category}; counts[v.category.value] += 1
violations_by_category(result) ==
    [cat \in Category |->
        Cardinality({i \in DOMAIN result.violations : result.violations[i].category = cat})]

\* by_file[v.file_path].append(v): the violations of each file, in insertion order
violations_by_file(result) ==
    [f \in {result.violations[i].file_path : i \in DOMAIN result.violations} |->
        SelectSeq(result.violations, LAMBDA v : v.file_path = f)]

(***************************************************************************)
(* Configuration constants of the script.                                  *)
(***************************************************************************)
ALLOWED_BREAKPOINTS == {<<"s", "m">>, <<"m", "d">>, <<"l", "g">>, <<"x", "l">>}

\* r'\b2xl:', r'\b3xl:', r'\bxs:', r'\bmax-sm:', r'\bmax-md:', r'\bmax-lg:',
\* r'\bmax-xl:', r'\bmax-2xl:', r'\bmin-\[', r'\bmax-\['
INVALID_BREAKPOINT_PATTERNS == <<
    <<WordB>> \o Lit(<<"2", "x", "l", ":">>),
    <<WordB>> \o Lit(<<"3", "x", "l", ":">>),
    <<WordB>> \o Lit(<<"x", "s", ":">>),
    <<WordB>> \o Lit(<<"m", "a", "x", "-", "s", "m", ":">>),
    <<WordB>> \o Lit(<<"m", "a", "x", "-", "m", "d", ":">>),
    <<WordB>> \o Lit(<<"m", "a", "x", "-", "l", "g", ":">>),
    <<WordB>> \o Lit(<<"m", "a", "x", "-", "x", "l", ":">>),
    <<WordB>> \o Lit(<<"m", "a", "x", "-", "2", "x", "l", ":">>),
    <<WordB>> \o Lit(<<"m", "i", "n", "-", "[">>),
    <<WordB>> \o Lit(<<"m", "a", "x", "-", "[">>)>>

BREAKPOINT_ORDER == <<<<"s", "m">>, <<"m", "d">>, <<"l", "g">>, <<"x", "l">>>>

\* (r'\bw-\[\d+px\]', "w-[px]"), ... : \b, the family, -[, \d+, px]
PxPattern(family) ==
    [re |-> <<WordB>> \o Lit(family) \o Lit(<<"-", "[">>) \o <<Cls(Digits, FALSE, "plus")>>
            \o Lit(<<"p", "x", "]">>),
     name |-> family \o <<"-", "[", "p", "x", "]">>]

HARDCODED_PX_PATTERNS == <<
    PxPattern(<<"w">>),
    PxPattern(<<"h">>),
    PxPattern(<<"m", "i", "n", "-", "w">>),
    PxPattern(<<"m", "a", "x", "-", "w">>),
    PxPattern(<<"m", "i", "n", "-", "h">>),
    PxPattern(<<"m", "a", "x", "-", "h">>),
    PxPattern(<<"g", "a", "p">>),
    PxPattern(<<"p">>),
    PxPattern(<<"m">>),
    PxPattern(<<"t", "o", "p">>),
    PxPattern(<<"r", "i", "g", "h", "t">>),
    PxPattern(<<"b", "o", "t", "t", "o", "m">>),
    PxPattern(<<"l", "e", "f", "t">>)>>

\* \s*
Ws0 == <<Cls(Whitespace, FALSE, "star")>>

\* \d+
Digits1 == <<Cls(Digits, FALSE, "plus")>>

\* style\s*=\s*
StyleEq == Lit(<<"s", "t", "y", "l", "e">>) \o Ws0 \o <<Ch("=")>> \o Ws0

\* r'style\s*=\s*["\'][^"\']*width\s*:\s*\d+px' and its height twin
StylePxHtml(prop) ==
    StyleEq \o <<Cls({"\"", "'"}, FALSE, "one"), Cls({"\"", "'"}, TRUE, "star")>>
    \o Lit(prop) \o Ws0 \o <<Ch(":")>> \o Ws0 \o Digits1 \o Lit(<<"p", "x">>)

\* r'style\s*=\s*\{\s*\{[^}]*width\s*:\s*["\']?\d+px' and its height twin
StylePxJsx(prop) ==
    StyleEq \o <<Ch("{")>> \o Ws0 \o <<Ch("{"), Cls({"}"}, TRUE, "star")>>
    \o Lit(prop) \o Ws0 \o <<Ch(":")>> \o Ws0 \o <<Cls({"\"", "'"}, FALSE, "opt")>>
    \o Digits1 \o Lit(<<"p", "x">>)

INLINE_STYLE_PX_PATTERNS == <<
    StylePxHtml(<<"w", "i", "d", "t", "h">>),
    StylePxHtml(<<"h", "e", "i", "g", "h", "t">>),
    StylePxJsx(<<"w", "i", "d", "t", "h">>),
    StylePxJsx(<<"h", "e", "i", "g", "h", "t">>)>>

\* r'\bgrid-cols-(\d+|\[.*?\])'
GRID_COLS_PATTERN ==
    <<WordB>> \o Lit(<<"g", "r", "i", "d", "-", "c", "o", "l", "s", "-">>)
    \o <<Group(<<Digits1, <<Ch("["), Cls({"\n"}, TRUE, "lazy"), Ch("]")>>>>, TRUE)>>

SCAN_EXTENSIONS == {<<".", "t", "s", "x">>, <<".", "j", "s", "x">>, <<".", "t", "s">>, <<".", "j", "s">>, <<".", "h", "t", "m", "l">>, <<".", "m", "d", "x">>}


(***************************************************************************)
(* extract_class_strings: the class-attribute values of a line.            *)
(***************************************************************************)
\* className\s*=\s*
ClassNameEq == Lit(<<"c", "l", "a", "s", "s", "N", "a", "m", "e">>) \o Ws0 \o <<Ch("=")>> \o Ws0

\* class\s*=\s*
ClassEq == Lit(<<"c", "l", "a", "s", "s">>) \o Ws0 \o <<Ch("=")>> \o Ws0

\* "([^"]*)" for the quote character qc
Quoted(qc) == <<Ch(qc), Group(<<<<Cls({qc}, TRUE, "star")>>>>, TRUE), Ch(qc)>>

AnyQuote == {BackTick, "'", "\""}

class_patterns == <<
    ClassNameEq \o Quoted("\""),                 \* r'className\s*=\s*"([^"]*)"'
    ClassNameEq \o Quoted("'"),                  \* r'className\s*=\s*\'([^\']*)\''
    ClassEq \o Quoted("\""),                     \* r'class\s*=\s*"([^"]*)"'
    ClassEq \o Quoted("'"),                      \* r'class\s*=\s*\'([^\']*)\''
    ClassNameEq                                  \* r'className\s*=\s*\{[`\'"]([^`\'"]*)[`\'"]\}'
        \o <<Ch("{"), Cls(AnyQuote, FALSE, "one"),
             Group(<<<<Cls(AnyQuote, TRUE, "star")>>>>, TRUE),
             Cls(AnyQuote, FALSE, "one"), Ch("}")>>,
    ClassNameEq                                  \* r'className\s*=\s*\{`([^`]*)`\}'
        \o <<Ch("{")>> \o Quoted(BackTick) \o <<Ch("}")>> >>

\* for pattern in class_patterns: classes.extend(re.findall(pattern, line))
RECURSIVE ExtractLoop(_, _)
ExtractLoop(k, line) ==
    IF k > Len(class_patterns) THEN <<>>
    ELSE findall(class_patterns[k], line) \o ExtractLoop(k + 1, line)

extract_class_strings(content, line_num, line) == ExtractLoop(1, line)

(***************************************************************************)
(* check_breakpoint_compliance and check_breakpoint_order.                 *)
(***************************************************************************)
\* for bp in BREAKPOINT_ORDER: if cls.startswith(f"{bp}:"): ... append((bp, classes.index(cls)))
RECURSIVE BreakpointEntriesOf(_, _, _)
BreakpointEntriesOf(classes, cls, k) ==
    IF k > Len(BREAKPOINT_ORDER) THEN <<>>
    ELSE (IF startswith(cls, BREAKPOINT_ORDER[k] \o <<":">>)
          THEN <<[utility |-> SubSeq(cls, Len(BREAKPOINT_ORDER[k]) + 2, Len(cls)),
                  bp |-> BREAKPOINT_ORDER[k],
                  pos |-> index(classes, cls)]>>
          ELSE <<>>)
         \o BreakpointEntriesOf(classes, cls, k + 1)

\* for cls in classes: ...
RECURSIVE BreakpointEntries(_, _)
BreakpointEntries(classes, j) ==
    IF j > Len(classes) THEN <<>>
    ELSE BreakpointEntriesOf(classes, classes[j], 1) \o BreakpointEntries(classes, j + 1)

\* the keys of a dict in insertion order
RECURSIVE Keys(_, _)
Keys(entries, seen) ==
    IF entries = <<>> THEN <<>>
    ELSE IF Head(entries).utility \in seen THEN Keys(Tail(entries), seen)
    ELSE <<Head(entries).utility>> \o Keys(Tail(entries), seen \cup {Head(entries).utility})

\* bp_indices[i] > bp_indices[i + 1] and position_indices[i] < position_indices[i + 1]
\* for some i in range(len(bp_indices) - 1)
OutOfOrder(breakpoints) ==
    /\ Len(breakpoints) > 1
    /\ \E i \in 1..(Len(breakpoints) - 1) :
          /\ index(BREAKPOINT_ORDER, breakpoints[i].bp) > index(BREAKPOINT_ORDER, breakpoints[i + 1].bp)
          /\ breakpoints[i].pos < breakpoints[i + 1].pos

\* variant: one violation for every out-of-order pair of neighbours, without the break
BreakpointOrderPerPair(class_str, line_num, file_path) ==
    LET classes == split(class_str)
        entries == BreakpointEntries(classes, 1)
        keys == Keys(entries, {})
        of(utility) == SelectSeq(entries, LAMBDA en : en.utility = utility)
        width == Len(entries)
        pairs == [n \in 1..(Len(keys) * width) |-> <<((n - 1) \div width) + 1, ((n - 1) % width) + 1>>]
        hits == SelectSeq(pairs, LAMBDA p : /\ p[2] < Len(of(keys[p[1]]))
                                            /\ OutOfOrder(SubSeq(of(keys[p[1]]), p[2], p[2] + 1)))
    IN  <<>> \o [n \in DOMAIN hits |->
            Violation(file_path, line_num,
                "breakpoint_compliance", "warning", "breakpoint_order",
                Prefix(class_str, 80),
                Msg("Breakpoint order violation for '{}'. Use mobile-first order: sm -> md -> lg -> xl",
                    keys[hits[n][1]]))]

\* for utility, breakpoints in utility_breakpoints.items(): ...
\* The violations it adds, in the order of the add_violation calls.
BreakpointOrderFound(class_str, line_num, file_path) ==
    LET classes == split(class_str)
        entries == BreakpointEntries(classes, 1)
        hits == SelectSeq(Keys(entries, {}),
                    LAMBDA utility : OutOfOrder(SelectSeq(entries, LAMBDA en : en.utility = utility)))
    IN  <<>> \o [k \in DOMAIN hits |->
            Violation(file_path, line_num,
                "breakpoint_compliance", "warning", "breakpoint_order",
                Prefix(class_str, 80),
                Msg("Breakpoint order violation for '{}'. Use mobile-first order: sm -> md -> lg -> xl",
                    hits[k]))]

check_breakpoint_order(class_str, line_num, file_path, line, result) ==
    add_violations(result, BreakpointOrderFound(class_str, line_num, file_path))

\* for pattern in INVALID_BREAKPOINT_PATTERNS: if re.findall(pattern, line): add_violation
InvalidBreakpointFound(line, line_num, file_path) ==
    LET hits == SelectSeq(INVALID_BREAKPOINT_PATTERNS, LAMBDA pattern : findall(pattern, line) # <<>>)
    IN  <<>> \o [k \in DOMAIN hits |->
            Violation(file_path, line_num,
                "breakpoint_compliance", "critical", "invalid_breakpoint",
                Prefix(strip(line), 100),
                Msg("Invalid breakpoint pattern detected. Only sm, md, lg, xl allowed.", <<>>))]

\* for class_str in class_strings: check_breakpoint_order(class_str, ...)
RECURSIVE BreakpointOrderGroups(_, _, _, _, _)
BreakpointOrderGroups(class_strings, line_num, file_path, line, result) ==
    IF class_strings = <<>> THEN result
    ELSE check_breakpoint_order(class_strings[Len(class_strings)], line_num, file_path, line,
            BreakpointOrderGroups(Front(class_strings), line_num, file_path, line, result))

check_breakpoint_compliance(line, line_num, file_path, result) ==
    BreakpointOrderGroups(extract_class_strings(<<>>, line_num, line), line_num, file_path, line,
        add_violations(result, InvalidBreakpointFound(line, line_num, file_path)))

(***************************************************************************)
(* check_hardcoded_sizes.                                                  *)
(***************************************************************************)
\* for pattern, name in HARDCODED_PX_PATTERNS: if re.findall(pattern, line): add_violation
HardcodedPxFound(line, line_num, file_path) ==
    LET hits == SelectSeq(HARDCODED_PX_PATTERNS, LAMBDA entry : findall(entry.re, line) # <<>>)
    IN  <<>> \o [k \in DOMAIN hits |->
            Violation(file_path, line_num,
                "hardcoded_size", "warning", "hardcoded_px_value",
                Prefix(strip(line), 100),
                Msg("Hardcoded pixel value detected ({}). Use Tailwind scale tokens, %, rem, or em instead.",
                    hits[k].name))]

\* variant: the category follows the pattern that matched, not the rule
InlineStylePxByPattern(line, line_num, file_path) ==
    LET hits == SelectSeq(INLINE_STYLE_PX_PATTERNS, LAMBDA pattern : search(pattern, line, TRUE))
    IN  <<>> \o [k \in DOMAIN hits |->
            Violation(file_path, line_num,
                IF k = 1 THEN "hardcoded_size" ELSE "inline_style", "critical", "inline_style_px",
                Prefix(strip(line), 100),
                Msg("Inline style with pixel value detected. Use Tailwind utilities instead.", <<>>))]

\* for pattern in INLINE_STYLE_PX_PATTERNS: if re.search(pattern, line, re.IGNORECASE): add_violation
InlineStylePxFound(line, line_num, file_path) ==
    LET hits == SelectSeq(INLINE_STYLE_PX_PATTERNS, LAMBDA pattern : search(pattern, line, TRUE))
    IN  <<>> \o [k \in DOMAIN hits |->
            Violation(file_path, line_num,
                "hardcoded_size", "critical", "inline_style_px",
                Prefix(strip(line), 100),
                Msg("Inline style with pixel value detected. Use Tailwind utilities instead.", <<>>))]

check_hardcoded_sizes(line, line_num, file_path, result) ==
    add_violations(result, HardcodedPxFound(line, line_num, file_path)
                           \o InlineStylePxFound(line, line_num, file_path))

(***************************************************************************)
(* check_layout_antipatterns.                                              *)
(***************************************************************************)
\* any(cls.startswith(f"{bp}:absolute") or cls.startswith(f"{bp}:fixed") or
\*     cls.startswith(f"{bp}:relative") or cls.startswith(f"{bp}:static")
\*     for bp in ALLOWED_BREAKPOINTS for cls in classes)
HasResponsivePosition(classes) ==
    \E bp \in ALLOWED_BREAKPOINTS : \E j \in DOMAIN classes :
        \/ startswith(classes[j], bp \o <<":", "a", "b", "s", "o", "l", "u", "t", "e">>)
        \/ startswith(classes[j], bp \o <<":", "f", "i", "x", "e", "d">>)
        \/ startswith(classes[j], bp \o <<":", "r", "e", "l", "a", "t", "i", "v", "e">>)
        \/ startswith(classes[j], bp \o <<":", "s", "t", "a", "t", "i", "c">>)

\* absolute / fixed without responsive context
CheckPosition(class_str, line_num, file_path) ==
    LET classes == split(class_str)
        has_absolute == In(<<"a", "b", "s", "o", "l", "u", "t", "e">>, classes)
        has_fixed == In(<<"f", "i", "x", "e", "d">>, classes)
    IN  IF (has_absolute \/ has_fixed) /\ ~HasResponsivePosition(classes)
        THEN <<Violation(file_path, line_num,
                "layout_antipattern", "warning", "position_no_responsive",
                Prefix(class_str, 80),
                Msg("'{}' used without responsive override. Consider adding breakpoint variants.",
                    IF has_absolute THEN <<"a", "b", "s", "o", "l", "u", "t", "e">> ELSE <<"f", "i", "x", "e", "d">>))>>
        ELSE <<>>

layout_indicators == <<<<"f", "l", "e", "x">>, <<"g", "r", "i", "d">>, <<"c", "o", "n", "t", "a", "i", "n", "e", "r">>, <<"m", "x", "-", "a", "u", "t", "o">>>>

\* overflow-hidden on potential layout containers
CheckOverflowHidden(class_str, line_num, file_path) ==
    LET classes == split(class_str) IN
    IF In(<<"o", "v", "e", "r", "f", "l", "o", "w", "-", "h", "i", "d", "d", "e", "n">>, classes)
       /\ \E k \in DOMAIN layout_indicators : In(layout_indicators[k], classes)
    THEN <<Violation(file_path, line_num,
            "layout_antipattern", "warning", "overflow_hidden_layout",
            Prefix(class_str, 80),
            Msg("'overflow-hidden' on layout container may cause clipping issues.", <<>>))>>
    ELSE <<>>

\* h-screen without breakpoint control
CheckHScreen(class_str, line_num, file_path) ==
    LET classes == split(class_str) IN
    IF In(<<"h", "-", "s", "c", "r", "e", "e", "n">>, classes)
       /\ ~(\E bp \in ALLOWED_BREAKPOINTS : \E j \in DOMAIN classes :
                startswith(classes[j], bp \o <<":", "h", "-">>))
    THEN <<Violation(file_path, line_num,
            "layout_antipattern", "warning", "h_screen_no_responsive",
            Prefix(class_str, 80),
            Msg("'h-screen' without breakpoint control may cause issues on mobile.", <<>>))>>
    ELSE <<>>

\* for class_str in class_strings: the three checks in turn
RECURSIVE LayoutGroups(_, _, _, _)
LayoutGroups(class_strings, line_num, file_path, result) ==
    IF class_strings = <<>> THEN result
    ELSE add_violations(LayoutGroups(Front(class_strings), line_num, file_path, result),
            CheckPosition(class_strings[Len(class_strings)], line_num, file_path)
            \o CheckOverflowHidden(class_strings[Len(class_strings)], line_num, file_path)
            \o CheckHScreen(class_strings[Len(class_strings)], line_num, file_path))

check_layout_antipatterns(line, line_num, file_path, content, result) ==
    LayoutGroups(extract_class_strings(content, line_num, line), line_num, file_path, result)

(***************************************************************************)
(* check_responsive_coverage.                                              *)
(***************************************************************************)
\* any(re.search(rf'\b{bp}:grid-cols-', class_str) for bp in ALLOWED_BREAKPOINTS)
HasResponsiveGrid(class_str) ==
    \E bp \in ALLOWED_BREAKPOINTS :
        search(<<WordB>> \o Lit(bp) \o Lit(<<":", "g", "r", "i", "d", "-", "c", "o", "l", "s", "-">>), class_str, FALSE)

\* cols = int(match) if match.isdigit() else 2
ColsOf(match) == IF isdigit(match) THEN int(match) ELSE 2

\* for match in grid_cols_matches: if cols > 1 and not has_responsive_grid: add_violation; break
CheckGridCols(class_str, line_num, file_path) ==
    LET grid_cols_matches == findall(GRID_COLS_PATTERN, class_str)
        hits == SelectSeq(grid_cols_matches, LAMBDA match : ColsOf(match) > 1)
    IN  IF grid_cols_matches # <<>> /\ hits # <<>> /\ ~HasResponsiveGrid(class_str)
        THEN <<Violation(file_path, line_num,
                "responsive_coverage", "warning", "grid_cols_no_responsive",
                Prefix(class_str, 80),
                Msg("'grid-cols-{}' without responsive variants. Consider: grid-cols-1 md:grid-cols-{}",
                    Head(hits)))>>
        ELSE <<>>

RECURSIVE CoverageGroups(_, _, _, _)
CoverageGroups(class_strings, line_num, file_path, result) ==
    IF class_strings = <<>> THEN result
    ELSE add_violations(CoverageGroups(Front(class_strings), line_num, file_path, result),
            CheckGridCols(class_strings[Len(class_strings)], line_num, file_path))

check_responsive_coverage(line, line_num, file_path, result) ==
    CoverageGroups(extract_class_strings(<<>>, line_num, line), line_num, file_path, result)

(***************************************************************************)
(* check_flex_grid_patterns.                                               *)
(***************************************************************************)
\* variant: the breakpoint-prefixed row without a base is reported as well
CheckFlexRowOrResponsive(class_str, line_num, file_path) ==
    LET classes == split(class_str)
        has_flex == In(<<"f", "l", "e", "x">>, classes)
        has_flex_row == In(<<"f", "l", "e", "x", "-", "r", "o", "w">>, classes)
        has_flex_col == In(<<"f", "l", "e", "x", "-", "c", "o", "l">>, classes)
        has_responsive_flex_row ==
            \E bp \in ALLOWED_BREAKPOINTS : \E j \in DOMAIN classes :
                startswith(classes[j], bp \o <<":", "f", "l", "e", "x", "-", "r", "o", "w">>)
    IN  IF has_flex /\ ~has_flex_col /\ (has_flex_row # has_responsive_flex_row)
        THEN <<Violation(file_path, line_num,
                "flex_grid_pattern", "warning", "flex_row_no_base",
                Prefix(class_str, 80),
                Msg("'flex-row' without 'flex-col' base. Consider: flex flex-col md:flex-row", <<>>))>>
        ELSE <<>>

\* flex-row without flex-col base
CheckFlexRow(class_str, line_num, file_path) ==
    LET classes == split(class_str)
        has_flex == In(<<"f", "l", "e", "x">>, classes)
        has_flex_row == In(<<"f", "l", "e", "x", "-", "r", "o", "w">>, classes)
        has_flex_col == In(<<"f", "l", "e", "x", "-", "c", "o", "l">>, classes)
        has_responsive_flex_row ==
            \E bp \in ALLOWED_BREAKPOINTS : \E j \in DOMAIN classes :
                startswith(classes[j], bp \o <<":", "f", "l", "e", "x", "-", "r", "o", "w">>)
    IN  IF has_flex /\ has_flex_row /\ ~has_flex_col /\ ~has_responsive_flex_row
        THEN <<Violation(file_path, line_num,
                "flex_grid_pattern", "warning", "flex_row_no_base",
                Prefix(class_str, 80),
                Msg("'flex-row' without 'flex-col' base. Consider: flex flex-col md:flex-row", <<>>))>>
        ELSE <<>>

\* r'\bgrid-cols-(\d+)\b'
GridColsN == <<WordB>> \o Lit(<<"g", "r", "i", "d", "-", "c", "o", "l", "s", "-">>) \o <<Group(<<Digits1>>, TRUE), WordB>>

\* r'\b(?:sm|md|lg|xl):grid-cols-(\d+)\b'
ResponsiveGridColsN ==
    <<WordB, Group(<<Lit(<<"s", "m">>), Lit(<<"m", "d">>), Lit(<<"l", "g">>), Lit(<<"x", "l">>)>>, FALSE)>>
    \o Lit(<<":", "g", "r", "i", "d", "-", "c", "o", "l", "s", "-">>) \o <<Group(<<Digits1>>, TRUE), WordB>>

\* variant: the threshold is two columns, not more than two
CheckGridEscalationFromTwo(class_str, line_num, file_path) ==
    LET grid_matches == findall(GridColsN, class_str)
        responsive_grid_matches == findall(ResponsiveGridColsN, class_str)
    IN  IF Len(grid_matches) = 1 /\ Len(responsive_grid_matches) = 0 /\ int(grid_matches[1]) >= 2
        THEN <<Violation(file_path, line_num,
                "flex_grid_pattern", "warning", "grid_no_escalation",
                Prefix(class_str, 80),
                Msg("'grid-cols-{}' without breakpoint escalation. Consider: grid-cols-1 sm:grid-cols-2 md:grid-cols-{}",
                    grid_matches[1]))>>
        ELSE <<>>

\* grid-cols defined only once without escalation
CheckGridEscalation(class_str, line_num, file_path) ==
    LET grid_matches == findall(GridColsN, class_str)
        responsive_grid_matches == findall(ResponsiveGridColsN, class_str)
    IN  IF Len(grid_matches) = 1 /\ Len(responsive_grid_matches) = 0 /\ int(grid_matches[1]) > 2
        THEN <<Violation(file_path, line_num,
                "flex_grid_pattern", "warning", "grid_no_escalation",
                Prefix(class_str, 80),
                Msg("'grid-cols-{}' without breakpoint escalation. Consider: grid-cols-1 sm:grid-cols-2 md:grid-cols-{}",
                    grid_matches[1]))>>
        ELSE <<>>

RECURSIVE FlexGridGroups(_, _, _, _)
FlexGridGroups(class_strings, line_num, file_path, result) ==
    IF class_strings = <<>> THEN result
    ELSE add_violations(FlexGridGroups(Front(class_strings), line_num, file_path, result),
            CheckFlexRow(class_strings[Len(class_strings)], line_num, file_path)
            \o CheckGridEscalation(class_strings[Len(class_strings)], line_num, file_path))

check_flex_grid_patterns(line, line_num, file_path, result) ==
    FlexGridGroups(extract_class_strings(<<>>, line_num, line), line_num, file_path, result)

(***************************************************************************)
(* check_inline_styles.                                                    *)
(***************************************************************************)
\* re.search(rf'{prop}\s*:', line, re.IGNORECASE)
HasProp(prop, line) == search(Lit(prop) \o Ws0 \o <<Ch(":")>>, line, TRUE)

\* for prop in layout_props: if re.search(...): add_violation; break
FirstProp(layout_props, line) ==
    SelectSeq(layout_props, LAMBDA prop : HasProp(prop, line))

jsx_layout_props == <<<<"w", "i", "d", "t", "h">>, <<"h", "e", "i", "g", "h", "t">>, <<"d", "i", "s", "p", "l", "a", "y">>, <<"p", "o", "s", "i", "t", "i", "o", "n">>,
                      <<"f", "l", "e", "x">>, <<"g", "r", "i", "d">>, <<"m", "a", "r", "g", "i", "n">>, <<"p", "a", "d", "d", "i", "n", "g">>>>

html_layout_props == <<<<"w", "i", "d", "t", "h">>, <<"h", "e", "i", "g", "h", "t">>, <<"d", "i", "s", "p", "l", "a", "y">>, <<"p", "o", "s", "i", "t", "i", "o", "n">>,
                       <<"f", "l", "e", "x">>, <<"g", "r", "i", "d">>>>

\* variant: one violation for every layout property found, without the break
CheckJsxStyleEveryProp(line, line_num, file_path) ==
    IF search(StyleEq \o <<Ch("{")>> \o Ws0 \o <<Ch("{")>>, line, FALSE)
    THEN <<>> \o [k \in DOMAIN FirstProp(jsx_layout_props, line) |->
            Violation(file_path, line_num,
                "inline_style", "critical", "inline_style_layout",
                Prefix(strip(line), 100),
                Msg("Inline style with layout property '{}'. Use Tailwind utilities instead.",
                    FirstProp(jsx_layout_props, line)[k]))]
    ELSE <<>>

\* inline style attributes (JSX style={{}})
CheckJsxStyle(line, line_num, file_path) ==
    IF search(StyleEq \o <<Ch("{")>> \o Ws0 \o <<Ch("{")>>, line, FALSE)
       /\ FirstProp(jsx_layout_props, line) # <<>>
    THEN <<Violation(file_path, line_num,
            "inline_style", "critical", "inline_style_layout",
            Prefix(strip(line), 100),
            Msg("Inline style with layout property '{}'. Use Tailwind utilities instead.",
                Head(FirstProp(jsx_layout_props, line))))>>
    ELSE <<>>

\* style="" attributes (HTML style)
CheckHtmlStyle(line, line_num, file_path) ==
    IF search(StyleEq \o <<Cls({"\"", "'"}, FALSE, "one")>>, line, FALSE)
       /\ FirstProp(html_layout_props, line) # <<>>
    THEN <<Violation(file_path, line_num,
            "inline_style", "critical", "inline_style_html",
            Prefix(strip(line), 100),
            Msg("HTML inline style with layout property '{}'. Use Tailwind utilities instead.",
                Head(FirstProp(html_layout_props, line))))>>
    ELSE <<>>

\* <style> blocks: re.search(r'<style[^>]*>', line, re.IGNORECASE)
CheckStyleBlock(line, line_num, file_path) ==
    IF search(Lit(<<"<", "s", "t", "y", "l", "e">>) \o <<Cls({">"}, TRUE, "star"), Ch(">")>>, line, TRUE)
    THEN <<Violation(file_path, line_num,
            "inline_style", "warning", "style_block",
            Prefix(strip(line), 100),
            Msg("<style> block detected. Prefer Tailwind utilities for styling.", <<>>))>>
    ELSE <<>>

\* @media queries: re.search(r'@media\s*\(', line)
CheckMediaQuery(line, line_num, file_path) ==
    IF search(Lit(<<"@", "m", "e", "d", "i", "a">>) \o Ws0 \o <<Ch("(")>>, line, FALSE)
    THEN <<Violation(file_path, line_num,
            "inline_style", "critical", "custom_media_query",
            Prefix(strip(line), 100),
            Msg("Custom @media query detected. Use Tailwind breakpoint prefixes instead.", <<>>))>>
    ELSE <<>>

check_inline_styles(line, line_num, file_path, result) ==
    add_violations(result,
        CheckJsxStyle(line, line_num, file_path)
        \o CheckHtmlStyle(line, line_num, file_path)
        \o CheckStyleBlock(line, line_num, file_path)
        \o CheckMediaQuery(line, line_num, file_path))

(***************************************************************************)
(* Reports: to_dict and print_cli_report.                                  *)
(***************************************************************************)
to_dict(result) ==
    [summary |-> [files_scanned |-> result.files_scanned,
                  total_violations |-> total_violations(result),
                  critical_violations |-> critical_count(result),
                  warnings |-> warning_count(result),
                  violations_by_category |-> violations_by_category(result)],
     violations |-> [i \in DOMAIN result.violations |->
                        LET v == result.violations[i] IN
                        [file |-> v.file_path, line |-> v.line_number, category |-> v.category,
                         severity |-> v.severity, rule |-> v.rule, snippet |-> v.snippet,
                         message |-> v.message]]]

\* sorted(seq, key=...) where less(a, b) compares the keys: a stable insertion sort
SortBy(seq, less(_, _)) ==
    LET Insert(x, sorted) ==
            LET pos == IF \E i \in DOMAIN sorted : less(x, sorted[i])
                       THEN CHOOSE i \in DOMAIN sorted :
                                less(x, sorted[i]) /\ \A j \in 1..(i - 1) : ~less(x, sorted[j])
                       ELSE Len(sorted) + 1
            IN  SubSeq(sorted, 1, pos - 1) \o <<x>> \o SubSeq(sorted, pos, Len(sorted))
        srt[n \in 0..Len(seq)] == IF n = 0 THEN <<>> ELSE Insert(seq[n], srt[n - 1])
    IN  srt[Len(seq)]

\* a set as a sequence, in some order
RECURSIVE SetToSeq(_)
SetToSeq(S) == IF S = {} THEN <<>> ELSE LET x == CHOOSE y \in S : TRUE IN <<x>> \o SetToSeq(S \ {x})

\* a variant of the status line that tests the Warnings before the Criticals
StatusLineWarningsFirst(result) ==
    IF warning_count(result) > 0 THEN "STATUS: PASSED WITH WARNINGS"
    ELSE IF critical_count(result) > 0 THEN "STATUS: FAILED (critical violations)"
    ELSE "STATUS: PASSED"

\* the status line that ends the human report
StatusLine(result) ==
    IF critical_count(result) > 0 THEN "STATUS: FAILED (critical violations)"
    ELSE IF warning_count(result) > 0 THEN "STATUS: PASSED WITH WARNINGS"
    ELSE "STATUS: PASSED"

\* one printed violation of a file section
ReportEntry(v) ==
    [severity_icon |-> IF v.severity = "critical" THEN "!!" ELSE "!",
     line_number |-> v.line_number, rule |-> v.rule, message |-> v.message,
     snippet_display |-> IF Len(v.snippet) > 60
                         THEN Prefix(v.snippet, 60) \o <<".", ".", ".">>
                         ELSE v.snippet]

\* a variant of print_cli_report that lists the violations of a file in the
\* order of the list
PrintInListOrder(result) ==
    LET by_file == violations_by_file(result)
        files == SortBy(SetToSeq(DOMAIN by_file), StrLess)
    IN  [sections |-> [k \in DOMAIN files |->
                          [file_path |-> files[k],
                           entries |-> [j \in DOMAIN by_file[files[k]] |->
                                           ReportEntry(by_file[files[k]][j])]]],
         files_scanned |-> result.files_scanned,
         total |-> total_violations(result),
         critical |-> critical_count(result),
         warnings |-> warning_count(result),
         by_category |-> SelectSeq([k \in DOMAIN CategorySeq |->
                                       <<CategorySeq[k], violations_by_category(result)[CategorySeq[k]]>>],
                                   LAMBDA p : p[2] > 0),
         status |-> StatusLine(result)]

\* what print_cli_report prints: the file sections, the summary block, the status line
print_cli_report(result) ==
    LET by_file == violations_by_file(result)
        files == SortBy(SetToSeq(DOMAIN by_file), StrLess)
    IN  [sections |-> [k \in DOMAIN files |->
                          [file_path |-> files[k],
                           entries |-> LET vs == SortBy(by_file[files[k]],
                                                        LAMBDA a, b : a.line_number < b.line_number)
                                       IN  [j \in DOMAIN vs |-> ReportEntry(vs[j])]]],
         files_scanned |-> result.files_scanned,
         total |-> total_violations(result),
         critical |-> critical_count(result),
         warnings |-> warning_count(result),
         by_category |-> SelectSeq([k \in DOMAIN CategorySeq |->
                                       <<CategorySeq[k], violations_by_category(result)[CategorySeq[k]]>>],
                                   LAMBDA p : p[2] > 0),
         status |-> StatusLine(result)]

(***************************************************************************)
(* The file tree and find_files.                                           *)
(***************************************************************************)
\* a Path is the sequence of its parts; str(path) for an absolute path
str(path) == <<"/">> \o join(<<"/">>, Tail(path))

name(path) == path[Len(path)]

\* Path.__lt__: the parts compared in order
RECURSIVE PathLess(_, _)
PathLess(p, q) ==
    IF q = <<>> THEN FALSE
    ELSE IF p = <<>> THEN TRUE
    ELSE IF Head(p) = Head(q) THEN PathLess(Tail(p), Tail(q))
    ELSE StrLess(Head(p), Head(q))

exclusions == <<<<"n", "o", "d", "e", "_", "m", "o", "d", "u", "l", "e", "s">>, <<".", "g", "i", "t">>, <<"d", "i", "s", "t">>, <<"b", "u", "i", "l", "d">>, <<".", "n", "e", "x", "t">>, <<".", "n", "u", "x", "t">>, <<"c", "o", "v", "e", "r", "a", "g", "e">>>>

\* if not any(excl in f.parts for excl in exclusions)
NotExcluded(f) == ~(\E k \in DOMAIN exclusions : In(exclusions[k], f))

\* find_files, given the paths project_path.rglob yields for the extensions, in
\* the order it yields them
find_files(walk) == SortBy(SelectSeq(walk, NotExcluded), PathLess)

(***************************************************************************)
(* The scanned trees of the model: a few paths under the project path      *)
(* /p, each absent, unreadable, undecodable or a text file holding one of  *)
(* a few contents.                                                         *)
(***************************************************************************)
project_path == <<<<"/">>, <<"p">>>>

PathA == project_path \o <<<<"a", ".", "t", "s", "x">>>>                    \* /p/a.tsx

PathB == project_path \o <<<<"s">>, <<"b", ".", "h", "t", "m", "l">>>>          \* /p/s/b.html

PathX == project_path \o <<<<"n", "o", "d", "e", "_", "m", "o", "d", "u", "l", "e", "s">>, <<"x", ".", "j", "s">>>>  \* /p/node_modules/x.js

PathD == project_path \o <<<<"d", ".", "c", "s", "s">>>>                    \* /p/d.css

PathC == project_path \o <<<<"c", ".", "t", "s">>>>                         \* /p/c.ts

Candidates == {PathA, PathB, PathC, PathX, PathD}

\* <div className="p-4">
LineClean == <<"<", "d", "i", "v", " ", "c", "l", "a", "s", "s", "N", "a", "m", "e", "=", "\"", "p", "-", "4", "\"", ">">>

\* // w-[240px]
LineComment == <<"/", "/", " ", "w", "-", "[", "2", "4", "0", "p", "x", "]">>

\* <div className="lg:flex sm:flex">
LineOrder == <<"<", "d", "i", "v", " ", "c", "l", "a", "s", "s", "N", "a", "m", "e", "=", "\"", "l", "g", ":", "f", "l", "e", "x", " ", "s", "m", ":", "f", "l", "e", "x", "\"", ">">>

\* <div style={{width: '120px'}}>
LineStyle == <<"<", "d", "i", "v", " ", "s", "t", "y", "l", "e", "=", "{", "{", "w", "i", "d", "t", "h", ":", " ", "'", "1", "2", "0", "p", "x", "'", "}", "}", ">">>

\* <p className="2xl:hidden w-[240px] absolute">
LineMixed == <<"<", "p", " ", "c", "l", "a", "s", "s", "N", "a", "m", "e", "=", "\"", "2", "x", "l", ":", "h", "i", "d", "d", "e", "n", " ", "w", "-", "[", "2", "4", "0", "p", "x", "]", " ", "a", "b", "s", "o", "l", "u", "t", "e", "\"", ">">>

\* <ul class='grid grid-cols-4'>
LineGrid == <<"<", "u", "l", " ", "c", "l", "a", "s", "s", "=", "'", "g", "r", "i", "d", " ", "g", "r", "i", "d", "-", "c", "o", "l", "s", "-", "4", "'", ">">>

\* no violation: a clean line, a blank line, a comment
TextClean == join(<<"\n">>, <<LineClean, <<" ", " ">>, LineComment>>)

\* Warnings only (the text ends with a newline)
TextWarn == join(<<"\n">>, <<LineOrder, <<>>>>)

\* Criticals only, on line 2
TextCrit == join(<<"\n">>, <<<<>>, LineStyle>>)

\* Criticals and Warnings of four categories, on two lines
TextMixed == join(<<"\n">>, <<LineMixed, LineGrid>>)

Texts == {TextClean, TextWarn, TextCrit, TextMixed}

Absent == [kind |-> "absent", content |-> <<>>]

TextFile(content) == [kind |-> "text", content |-> content]

\* a file read_text raises on: PermissionError, UnicodeDecodeError
Unreadable == {[kind |-> k, content |-> <<>>] : k \in {"unreadable", "undecodable"}}

Trees ==
    {t \in [Candidates -> {Absent} \cup Unreadable \cup {TextFile(text) : text \in Texts}] :
        /\ t[PathA].kind # "undecodable"
        /\ t[PathB] \in {Absent, [kind |-> "undecodable", content |-> <<>>],
                         TextFile(TextWarn), TextFile(TextMixed)}
        /\ t[PathC] \in {Absent, [kind |-> "unreadable", content |-> <<>>], TextFile(TextCrit)}
        /\ t[PathX] = TextFile(TextMixed)
        /\ t[PathD] = TextFile(TextCrit)}

EmptyTree == [p \in Candidates |-> Absent]

\* the permutations of a set, as sequences
RECURSIVE Perms(_)
Perms(S) ==
    IF S = {} THEN {<<>>}
    ELSE UNION {{<<x>> \o p : p \in Perms(S \ {x})} : x \in S}

(***************************************************************************)
(* The rules applied to one line.  The lines are built from class tokens,  *)
(* class-attribute conventions and inline style declarations; LineSpec     *)
(* takes one of them through the extractor and the six checks, as the      *)
(* loop of audit_file does for each line of a file.                        *)
(***************************************************************************)
\* the longest group of breakpoint tokens of one or two utilities
MaxOrderTokens == 4

\* the most tokens, attributes or style declarations on the other lines
MaxTokens == 2

\* the most tokens in a group of flex-direction tokens
MaxFlexTokens == 3

\* the sequences of at most n distinct elements of S
Arrangements(S, n) ==
    {w \in UNION {[1..k -> S] : k \in 0..n} : \A i \in DOMAIN w : \A j \in DOMAIN w : w[i] = w[j] => i = j}

\* <div className="..."> with the class tokens of words, separated by spaces
ClassLine(words) ==
    <<"<", "d", "i", "v", " ", "c", "l", "a", "s", "s", "N", "a", "m", "e", "=", "\"">> \o join(<<" ">>, words) \o <<"\"", ">">>

Lines ==
    LET order_tokens == {<<"s", "m", ":", "f", "l", "e", "x">>, <<"m", "d", ":", "f", "l", "e", "x">>, <<"l", "g", ":", "f", "l", "e", "x">>, <<"s", "m", ":", "g", "r", "i", "d">>, <<"x", "l", ":", "g", "r", "i", "d">>}
        breakpoint_tokens == {<<"2", "x", "l", ":", "h", "i", "d", "d", "e", "n">>, <<"x", "s", ":", "f", "l", "e", "x">>, <<"m", "a", "x", "-", "m", "d", ":", "f", "l", "e", "x">>, <<"m", "a", "x", "-", "2", "x", "l", ":", "h", "i", "d", "d", "e", "n">>,
                              <<"m", "i", "n", "-", "[", "6", "4", "0", "p", "x", "]", ":", "f", "l", "e", "x">>, <<"4", "x", "l", ":", "h", "i", "d", "d", "e", "n">>, <<"m", "i", "n", "-", "m", "d", ":", "f", "l", "e", "x">>, <<"s", "m", ":", "f", "l", "e", "x">>, <<"p", "-", "4">>}
        size_tokens == {<<"w", "-", "[", "2", "4", "0", "p", "x", "]">>, <<"m", "i", "n", "-", "w", "-", "[", "2", "0", "0", "p", "x", "]">>, <<"h", "-", "[", "1", "0", "p", "x", "]">>, <<"g", "a", "p", "-", "[", "4", "p", "x", "]">>, <<"w", "-", "[", "5", "0", "%", "]">>, <<"m", "-", "2">>}
        attributes == {<<"c", "l", "a", "s", "s", "N", "a", "m", "e", "=", "\"", "p", "-", "4", "\"">>, <<"c", "l", "a", "s", "s", "N", "a", "m", "e", "=", "'", "m", "-", "2", "'">>, <<"c", "l", "a", "s", "s", "=", "\"", "f", "l", "e", "x", "\"">>, <<"c", "l", "a", "s", "s", "=", "'", "g", "r", "i", "d", "'">>,
                       <<"c", "l", "a", "s", "s", "N", "a", "m", "e", "=", "{", BackTick, "g", "a", "p", "-", "2", BackTick, "}">>, <<"h", "r", "e", "f", "=", "\"", "x", "\"">>}
        jsx_decls == {<<"w", "i", "d", "t", "h", ":", " ", "'", "1", "2", "0", "p", "x", "'">>, <<"h", "e", "i", "g", "h", "t", ":", " ", "'", "1", "0", "p", "x", "'">>, <<"w", "i", "d", "t", "h", ":", " ", "'", "5", "0", "%", "'">>, <<"d", "i", "s", "p", "l", "a", "y", ":", " ", "'", "f", "l", "e", "x", "'">>,
                      <<"p", "a", "d", "d", "i", "n", "g", ":", " ", "4">>, <<"c", "o", "l", "o", "r", ":", " ", "'", "r", "e", "d", "'">>}
        html_decls == {<<"w", "i", "d", "t", "h", ":", " ", "1", "2", "0", "p", "x">>, <<"h", "e", "i", "g", "h", "t", ":", " ", "1", "0", "p", "x">>, <<"w", "i", "d", "t", "h", ":", " ", "5", "0", "%">>, <<"d", "i", "s", "p", "l", "a", "y", ":", " ", "f", "l", "e", "x">>,
                       <<"p", "a", "d", "d", "i", "n", "g", ":", " ", "4", "p", "x">>, <<"c", "o", "l", "o", "r", ":", " ", "r", "e", "d">>}
        flex_tokens == {<<"f", "l", "e", "x">>, <<"f", "l", "e", "x", "-", "r", "o", "w">>, <<"f", "l", "e", "x", "-", "c", "o", "l">>, <<"m", "d", ":", "f", "l", "e", "x", "-", "r", "o", "w">>}
        grid_tokens == {<<"g", "r", "i", "d", "-", "c", "o", "l", "s", "-", "1">>, <<"g", "r", "i", "d", "-", "c", "o", "l", "s", "-", "2">>, <<"g", "r", "i", "d", "-", "c", "o", "l", "s", "-", "4">>, <<"m", "d", ":", "g", "r", "i", "d", "-", "c", "o", "l", "s", "-", "2">>, <<"l", "g", ":", "g", "r", "i", "d", "-", "c", "o", "l", "s", "-", "4">>, <<"g", "r", "i", "d", "-", "c", "o", "l", "s", "-", "[", "2", "0", "0", "p", "x", "]">>}
        position_tokens == {<<"a", "b", "s", "o", "l", "u", "t", "e">>, <<"f", "i", "x", "e", "d">>, <<"m", "d", ":", "r", "e", "l", "a", "t", "i", "v", "e">>, <<"m", "d", ":", "s", "t", "i", "c", "k", "y">>, <<"l", "g", ":", "s", "t", "a", "t", "i", "c">>, <<"s", "m", ":", "f", "i", "x", "e", "d">>, <<"r", "e", "l", "a", "t", "i", "v", "e">>}
    IN  {ClassLine(w) : w \in Arrangements(order_tokens, MaxOrderTokens)}
        \cup {ClassLine(w) : w \in Arrangements(flex_tokens, MaxFlexTokens)}
        \cup {ClassLine(w) : w \in Arrangements(grid_tokens, MaxTokens)}
        \cup {ClassLine(w) : w \in Arrangements(position_tokens, MaxTokens)}
        \cup {ClassLine(w) : w \in Arrangements(breakpoint_tokens, MaxTokens)}
        \cup {ClassLine(w) : w \in Arrangements(size_tokens, MaxTokens)}
        \cup {<<"<", "a", " ">> \o join(<<" ">>, w) \o <<">">> : w \in Arrangements(attributes, MaxTokens)}
        \cup {<<"<", "d", "i", "v", " ", "s", "t", "y", "l", "e", "=", "{", "{">> \o join(<<",", " ">>, w) \o <<"}", "}", ">">> : w \in Arrangements(jsx_decls, MaxTokens)}
        \cup {<<"<", "d", "i", "v", " ", "s", "t", "y", "l", "e", "=", "\"">> \o join(<<";", " ">>, w) \o <<"\"", ">">> : w \in Arrangements(html_decls, MaxTokens)}
        \cup {<<"c", "o", "n", "s", "t", " ", "s", "i", "z", "e", "s", " ", "=", " ", "{", " ", "x", "s", ":", " ", "1", " ", "}">>,
              <<"c", "o", "n", "s", "t", " ", "s", " ", "=", " ", "\"", "m", "a", "x", "-", "[", "1", "0", "0", "p", "x", "]", "\"">>,
              <<"<", "a", " ", "c", "l", "a", "s", "s", "N", "a", "m", "e", "=", "\"", "p", "-", "4", "\"", " ", "t", "i", "t", "l", "e", "=", "\"", "x", "s", ":", " ", "s", "m", "a", "l", "l", "\"", ">">>,
              <<"<", "d", "i", "v", " ", "c", "l", "a", "s", "s", "N", "a", "m", "e", "=", "{", BackTick, "f", "l", "e", "x", " ", "f", "l", "e", "x", "-", "r", "o", "w", BackTick, "}", ">">>,
              <<"<", "d", "i", "v", " ", "c", "l", "a", "s", "s", "N", "a", "m", "e", "=", "{", "\"", "f", "l", "e", "x", " ", "f", "l", "e", "x", "-", "r", "o", "w", "\"", "}", ">">>,
              <<"<", "d", "i", "v", " ", "c", "l", "a", "s", "s", "N", "a", "m", "e", "=", "{", "'", "g", "r", "i", "d", "-", "c", "o", "l", "s", "-", "4", "'", "}", ">">>,
              <<"<", "d", "i", "v", " ", "c", "l", "a", "s", "s", "N", "a", "m", "e", "=", "{", BackTick, "a", "b", "s", "o", "l", "u", "t", "e", BackTick, "}", " ", "c", "l", "a", "s", "s", "=", "\"", "g", "r", "i", "d", "-", "c", "o", "l", "s", "-", "2", "\"", ">">>,
              <<"<", "d", "i", "v", " ", "c", "l", "a", "s", "s", "N", "a", "m", "e", "=", "\"", "w", "-", "[", "2", "4", "0", "p", "x", "]", "\"", " ", "s", "t", "y", "l", "e", "=", "{", "{", "w", "i", "d", "t", "h", ":", " ", "'", "1", "2", "0", "p", "x", "'", ",", " ", "h", "e", "i", "g", "h", "t", ":", " ", "'", "1", "0", "p", "x", "'", "}", "}", ">">>,
              <<"<", "d", "i", "v", " ", "c", "l", "a", "s", "s", "N", "a", "m", "e", "=", "\"", "w", "-", "[", "2", "4", "0", "p", "x", "]", "\"", " ", "s", "t", "y", "l", "e", "=", "{", "{", "h", "e", "i", "g", "h", "t", ":", " ", "'", "1", "0", "p", "x", "'", "}", "}", ">">>,
              <<"<", "d", "i", "v", " ", "c", "l", "a", "s", "s", "N", "a", "m", "e", "=", "\"", "w", "-", "[", "2", "4", "0", "p", "x", "]", "\"", " ", "s", "t", "y", "l", "e", "=", "\"", "h", "e", "i", "g", "h", "t", ":", " ", "1", "0", "p", "x", "\"", ">">>,
              <<"<", "s", "p", "a", "n", ">", "x", "s", ":", " ", "e", "x", "t", "r", "a", " ", "s", "m", "a", "l", "l", "<", "/", "s", "p", "a", "n", ">">>,
              <<"<", "p", ">", "h", "e", "l", "l", "o", "<", "/", "p", ">">>,
              <<"/", "/", " ", "x", "s", ":", "f", "l", "e", "x", " ", "w", "-", "[", "2", "4", "0", "p", "x", "]">>,
              <<" ", " ">>}

(***************************************************************************)
(* State.                                                                  *)
(***************************************************************************)
VARIABLES
    root,       \* what args.project_path is: "missing", "file" or "dir"
    fs,         \* the tree under project_path: path -> file state
    args,       \* the parsed arguments: json (--json), output (--output given)
    pc,         \* where main is
    files,      \* run_audit: the list find_files returned
    idx,        \* run_audit: the position in files of the next file
    result,     \* the AuditResult: <<>> before run_audit creates it, <<r>> after
    stdout,     \* what was printed: <<>> or <<report>>
    stderr,     \* the error message printed: <<>> or <<message>>
    out_file,   \* the --output file: <<>> or <<document>>
    exit_code,  \* <<>> while running, <<status>> once exited
    run,        \* the number of this run over the tree
    history,    \* the Results of the earlier runs
    text_line,  \* LineSpec: the line the rules are applied to
    extracted   \* LineSpec: <<>> or <<what extract_class_strings returned>>

vars == <<root, fs, args, pc, files, idx, result, stdout, stderr, out_file, exit_code, run, history,
          text_line, extracted>>

\* the runs of the script over one tree
MaxRuns == 2

(***************************************************************************)
(* audit_file and run_audit.                                               *)
(***************************************************************************)
\* Run all checks
RunChecks(line, line_num, rel_path, content, result0) ==
    check_inline_styles(line, line_num, rel_path,
        check_flex_grid_patterns(line, line_num, rel_path,
            check_responsive_coverage(line, line_num, rel_path,
                check_layout_antipatterns(line, line_num, rel_path, content,
                    check_hardcoded_sizes(line, line_num, rel_path,
                        check_breakpoint_compliance(line, line_num, rel_path, result0))))))

\* Skip empty lines and comments
Skipped(line) ==
    LET stripped == strip(line) IN
    stripped = <<>> \/ startswith(stripped, <<"/", "/">>) \/ startswith(stripped, <<"/", "*">>)

\* for line_num, line in enumerate(lines, start=1): ...
RECURSIVE AuditLines(_, _, _, _, _)
AuditLines(lines, line_num, rel_path, content, result0) ==
    IF line_num > Len(lines) THEN result0
    ELSE AuditLines(lines, line_num + 1, rel_path, content,
            IF Skipped(lines[line_num]) THEN result0
            ELSE RunChecks(lines[line_num], line_num, rel_path, content, result0))

\* a variant of audit_file that takes a file it cannot read off files_scanned
AuditFileCountingRead(file_path, result0) ==
    IF fs[file_path].kind # "text" THEN [result0 EXCEPT !.files_scanned = @ - 1]
    ELSE LET content == fs[file_path].content IN
         AuditLines(SplitOn(content, "\n"), 1, str(file_path), content, result0)

\* a variant of audit_file that reports a file it cannot read as a violation
AuditFileReportingError(file_path, result0) ==
    IF fs[file_path].kind # "text"
    THEN add_violation(result0, Violation(str(file_path), 0, "inline_style", "critical",
                                          "read_error", <<>>, Msg("File could not be read.", <<>>)))
    ELSE LET content == fs[file_path].content IN
         AuditLines(SplitOn(content, "\n"), 1, str(file_path), content, result0)

\* a variant of audit_file that stops checking once the Result holds a Critical
AuditFileUntilCritical(file_path, result0) ==
    IF fs[file_path].kind # "text" \/ critical_count(result0) > 0 THEN result0
    ELSE LET content == fs[file_path].content IN
         AuditLines(SplitOn(content, "\n"), 1, str(file_path), content, result0)

\* a variant of audit_file that numbers the lines it checks, not the lines of the file
AuditFileNumberingChecked(file_path, result0) ==
    IF fs[file_path].kind # "text" THEN result0
    ELSE LET content == fs[file_path].content IN
         AuditLines(SelectSeq(SplitOn(content, "\n"), LAMBDA line : ~Skipped(line)),
                    1, str(file_path), content, result0)

\* audit_file(file_path, result): file_path.read_text raises unless the file is text
audit_file(file_path, result0) ==
    IF fs[file_path].kind # "text" THEN result0
    ELSE LET content == fs[file_path].content IN
         AuditLines(SplitOn(content, "\n"), 1, str(file_path), content, result0)

\* the paths rglob yields for the extensions of SCAN_EXTENSIONS
Matched ==
    {p \in Candidates : fs[p].kind # "absent" /\ \E ext \in SCAN_EXTENSIONS : endswith(name(p), ext)}

\* a variant of NewResult that starts from the violations of the run before
NewResultCarrying(found) ==
    [violations |-> IF history # <<>> /\ history[Len(history)] # <<>>
                    THEN history[Len(history)][1].violations ELSE <<>>,
     files_scanned |-> Len(found)]

\* result = AuditResult(); files = find_files(project_path); result.files_scanned = len(files)
NewResult(found) == [AuditResult EXCEPT !.files_scanned = Len(found)]

(***************************************************************************)
(* main.                                                                   *)
(***************************************************************************)
\* a variant of PathError that tests only that the path exists
PathErrorExistenceOnly(r) ==
    IF r = "missing" THEN "ERROR: Project path does not exist" ELSE "ok"

\* project_path.exists() / project_path.is_dir()
PathError(r) ==
    IF r = "missing" THEN "ERROR: Project path does not exist"
    ELSE IF r # "dir" THEN "ERROR: Project path is not a directory"
    ELSE "ok"

\* Determine exit code
ExitStatus(result0) ==
    IF critical_count(result0) > 0 THEN 2
    ELSE IF warning_count(result0) > 0 THEN 1
    ELSE 0

Init ==
    /\ root \in {"missing", "file", "dir"}
    /\ fs \in (IF root = "dir" THEN Trees ELSE {EmptyTree})
    /\ args \in [json : BOOLEAN, output : BOOLEAN]
    /\ pc = "main"
    /\ files = <<>>
    /\ idx = 0
    /\ result = <<>>
    /\ stdout = <<>>
    /\ stderr = <<>>
    /\ out_file = <<>>
    /\ exit_code = <<>>
    /\ run = 1
    /\ history = <<>>
    /\ text_line = <<>>
    /\ extracted = <<>>

\* the path is missing or not a directory: message on stderr, sys.exit(2)
RejectPath ==
    /\ pc = "main"
    /\ PathError(root) # "ok"
    /\ stderr' = <<PathError(root)>>
    /\ exit_code' = <<2>>
    /\ pc' = "exited"
    /\ UNCHANGED <<text_line, extracted, root, fs, args, files, idx, result, stdout, out_file, run, history>>

\* the path is a directory: run_audit is called
AcceptPath ==
    /\ pc = "main"
    /\ PathError(root) = "ok"
    /\ pc' = "run_audit"
    /\ UNCHANGED <<text_line, extracted, root, fs, args, files, idx, result, stdout, stderr, out_file, exit_code, run, history>>

\* run_audit up to its loop: the Result is created and the files are found
RunAudit ==
    /\ pc = "run_audit"
    /\ \E walk \in Perms(Matched) :
          /\ files' = find_files(walk)
          /\ result' = <<NewResult(find_files(walk))>>
    /\ idx' = 1
    /\ pc' = "audit_file"
    /\ UNCHANGED <<text_line, extracted, root, fs, args, stdout, stderr, out_file, exit_code, run, history>>

\* one iteration of run_audit's loop: audit_file(file_path, result)
AuditFile ==
    /\ pc = "audit_file"
    /\ idx <= Len(files)
    /\ result' = <<audit_file(files[idx], result[1])>>
    /\ idx' = idx + 1
    /\ UNCHANGED <<text_line, extracted, root, fs, args, pc, files, stdout, stderr, out_file, exit_code, run, history>>

\* run_audit returns the Result
ReturnResult ==
    /\ pc = "audit_file"
    /\ idx > Len(files)
    /\ pc' = "output"
    /\ UNCHANGED <<text_line, extracted, root, fs, args, files, idx, result, stdout, stderr, out_file, exit_code, run, history>>

\* --output: Path(args.output).write_text raises (the path cannot be written);
\* nothing catches it: the traceback goes to stderr and the interpreter exits with 1
OutputFileError ==
    /\ pc = "output"
    /\ args.output
    /\ stderr' = <<"Traceback (most recent call last)">>
    /\ exit_code' = <<1>>
    /\ pc' = "exited"
    /\ UNCHANGED <<text_line, extracted, root, fs, args, files, idx, result, stdout, out_file, run, history>>

\* --output: the JSON document is written to the file
OutputFile ==
    /\ pc = "output"
    /\ args.output
    /\ out_file' = <<to_dict(result[1])>>
    /\ stdout' = <<[kind |-> "written"]>>
    /\ pc' = "exit"
    /\ UNCHANGED <<text_line, extracted, root, fs, args, files, idx, result, stderr, exit_code, run, history>>

\* --json without --output: the JSON document is printed
OutputJson ==
    /\ pc = "output"
    /\ args.json /\ ~args.output
    /\ stdout' = <<[kind |-> "json", doc |-> to_dict(result[1])]>>
    /\ pc' = "exit"
    /\ UNCHANGED <<text_line, extracted, root, fs, args, files, idx, result, stderr, out_file, exit_code, run, history>>

\* neither: the human report is printed
OutputCli ==
    /\ pc = "output"
    /\ ~args.json /\ ~args.output
    /\ stdout' = <<[kind |-> "cli", report |-> print_cli_report(result[1])]>>
    /\ pc' = "exit"
    /\ UNCHANGED <<text_line, extracted, root, fs, args, files, idx, result, stderr, out_file, exit_code, run, history>>

\* sys.exit with the status of the Result
Exit ==
    /\ pc = "exit"
    /\ exit_code' = <<ExitStatus(result[1])>>
    /\ pc' = "exited"
    /\ UNCHANGED <<text_line, extracted, root, fs, args, files, idx, result, stdout, stderr, out_file, run, history>>

\* the script is run again over the same tree with the same arguments
Rerun ==
    /\ pc = "exited"
    /\ run < MaxRuns
    /\ history' = Append(history, result)
    /\ run' = run + 1
    /\ pc' = "main"
    /\ files' = <<>>
    /\ idx' = 0
    /\ result' = <<>>
    /\ stdout' = <<>>
    /\ stderr' = <<>>
    /\ out_file' = <<>>
    /\ exit_code' = <<>>
    /\ UNCHANGED <<text_line, extracted, root, fs, args>>

Next ==
    \/ RejectPath
    \/ AcceptPath
    \/ RunAudit
    \/ AuditFile
    \/ ReturnResult
    \/ OutputFile
    \/ OutputFileError
    \/ OutputJson
    \/ OutputCli
    \/ Exit
    \/ Rerun

Spec == Init /\ [][Next]_vars

(***************************************************************************)
(* One line through the extractor and the checks.                          *)
(***************************************************************************)
LineInit ==
    /\ text_line \in Lines
    /\ extracted = <<>>
    /\ pc = "line"
    /\ result = <<AuditResult>>
    /\ root = "dir"
    /\ fs = EmptyTree
    /\ args = [json |-> FALSE, output |-> FALSE]
    /\ files = <<>>
    /\ idx = 0
    /\ stdout = <<>>
    /\ stderr = <<>>
    /\ out_file = <<>>
    /\ exit_code = <<>>
    /\ run = 1
    /\ history = <<>>

\* extract_class_strings(content, line_num, line)
ExtractLine ==
    /\ pc = "line"
    /\ extracted' = <<extract_class_strings(text_line, 1, text_line)>>
    /\ pc' = "checks"
    /\ UNCHANGED <<text_line, root, fs, args, files, idx, result, stdout, stderr, out_file, exit_code, run, history>>

\* the line is empty or a comment: continue
SkipLine ==
    /\ pc = "checks"
    /\ Skipped(text_line)
    /\ pc' = "skipped"
    /\ UNCHANGED <<text_line, extracted, root, fs, args, files, idx, result, stdout, stderr, out_file, exit_code, run, history>>

\* the six checks on the line, in the order of audit_file
CheckLine ==
    /\ pc = "checks"
    /\ ~Skipped(text_line)
    /\ result' = <<RunChecks(text_line, 1, str(PathA), text_line, result[1])>>
    /\ pc' = "checked"
    /\ UNCHANGED <<text_line, extracted, root, fs, args, files, idx, stdout, stderr, out_file, exit_code, run, history>>

LineNext ==
    \/ ExtractLine
    \/ SkipLine
    \/ CheckLine

LineSpec == LineInit /\ [][LineNext]_vars

(***************************************************************************)
(* Properties.                                                             *)
(***************************************************************************)
\* C1: for every Result the exit status is 0 when the Result holds no violation,
\* 1 when it holds a Warning and no Critical, 2 when it holds a Critical, in the
\* human and in the JSON output modes alike.
C1_ExitStatusLadder ==
    (pc = "exited" /\ result # <<>>) =>
        LET vs == result[1].violations
            crit == \E i \in DOMAIN vs : vs[i].severity = "critical"
            warn == \E i \in DOMAIN vs : vs[i].severity = "warning"
        IN  exit_code = <<IF crit THEN 2 ELSE IF warn THEN 1 ELSE 0>>

\* C2: the status ladder is monotonic over add_violation: a Result that holds a
\* Critical keeps the status Critical whatever violation is added to it, in the
\* engine's own steps and for any further violation, and a Result without
\* violations has the status Passed.
C2_StatusMonotonic ==
    /\ [](result # <<>> =>
            LET r == result[1] IN
            /\ r.violations = <<>> => (ExitStatus(r) = 0 /\ StatusLine(r) = "STATUS: PASSED")
            /\ critical_count(r) > 0 =>
                  \A sev \in Severity : \A cat \in Category :
                      LET more == add_violation(r, Violation(<<"f">>, 1, cat, sev, "rule", <<>>,
                                                             Msg("message", <<>>)))
                      IN  /\ ExitStatus(more) = 2
                          /\ StatusLine(more) = "STATUS: FAILED (critical violations)")
    /\ [][(result # <<>> /\ result' # <<>> /\ ExitStatus(result[1]) = 2)
             => ExitStatus(result'[1]) = 2]_vars

\* C2 happens: a Warning was added to a Result that already held a Critical
C2_Witness ==
    /\ result # <<>>
    /\ \E i \in DOMAIN result[1].violations : \E j \in DOMAIN result[1].violations :
          /\ i < j
          /\ result[1].violations[i].severity = "critical"
          /\ result[1].violations[j].severity = "warning"

\* C3: the status line of the human report agrees with the exit status: FAILED
\* exactly with 2, PASSED WITH WARNINGS exactly with 1, PASSED exactly with 0, for
\* the printed report and for every Result.
C3_ReportStatusIsExitStatus ==
    /\ (pc = "exited" /\ stdout # <<>> /\ stdout[1].kind = "cli") =>
          LET status == stdout[1].report.status IN
          /\ (status = "STATUS: FAILED (critical violations)") <=> (exit_code = <<2>>)
          /\ (status = "STATUS: PASSED WITH WARNINGS") <=> (exit_code = <<1>>)
          /\ (status = "STATUS: PASSED") <=> (exit_code = <<0>>)
    /\ result # <<>> =>
          /\ (StatusLine(result[1]) = "STATUS: FAILED (critical violations)") <=> (ExitStatus(result[1]) = 2)
          /\ (StatusLine(result[1]) = "STATUS: PASSED WITH WARNINGS") <=> (ExitStatus(result[1]) = 1)
          /\ (StatusLine(result[1]) = "STATUS: PASSED") <=> (ExitStatus(result[1]) = 0)

\* C3 happens: the human report of a Result with Criticals and Warnings was
\* printed and the process has exited
C3_Witness ==
    /\ pc = "exited"
    /\ stdout # <<>> /\ stdout[1].kind = "cli"
    /\ stdout[1].report.critical > 0 /\ stdout[1].report.warnings > 0
    /\ exit_code = <<2>>

\* C4: once run_audit has returned, files_scanned is the number of paths
\* find_files yielded, however many of them could not be read.
C4_FilesScannedIsWalked ==
    (pc \in {"output", "exit", "exited"} /\ result # <<>>) =>
        /\ result[1].files_scanned = Len(files)
        /\ result[1].files_scanned = Cardinality({p \in Matched : NotExcluded(p)})

\* C4 happens: run_audit returned over files of which one could not be read
C4_Witness ==
    /\ pc = "output"
    /\ Len(files) >= 2
    /\ \E k \in DOMAIN files : fs[files[k]].kind \in {"unreadable", "undecodable"}
    /\ \E k \in DOMAIN files : fs[files[k]].kind = "text"

\* C5: a file that cannot be read or decoded adds no violation and raises
\* nothing: the step leaves the Result as it was, the loop goes on to the next
\* file, and run_audit returns a Result.
C5_ReadFailureSkipsFile ==
    /\ [][(pc = "audit_file" /\ idx <= Len(files)
             /\ fs[files[idx]].kind \in {"unreadable", "undecodable"})
          => (/\ result' = result
              /\ idx' = idx + 1
              /\ pc' = "audit_file"
              /\ exit_code' = <<>>
              /\ stderr' = <<>>)]_vars
    /\ [](pc \in {"output", "exit"} =>
            /\ result # <<>>
            /\ \A i \in DOMAIN result[1].violations :
                  \A k \in DOMAIN files :
                      result[1].violations[i].file_path = str(files[k]) => fs[files[k]].kind = "text")

\* C5 happens: run_audit returned after a file that could not be read, with
\* the violations of an earlier file and of a later one
C5_Witness ==
    /\ pc = "output"
    /\ \E i \in DOMAIN files : \E k \in DOMAIN files : \E j \in DOMAIN files :
          /\ i < k /\ k < j
          /\ fs[files[k]].kind \in {"unreadable", "undecodable"}
          /\ \E n \in DOMAIN result[1].violations : result[1].violations[n].file_path = str(files[i])
          /\ \E n \in DOMAIN result[1].violations : result[1].violations[n].file_path = str(files[j])

\* C6: a root path that does not exist or is not a directory ends the run
\* before run_audit: no file is found, no Result, no report, and the exit
\* status is not zero.
C6_BadRootFailsFirst ==
    root # "dir" =>
        /\ pc \in {"main", "exited"}
        /\ result = <<>> /\ files = <<>> /\ idx = 0
        /\ stdout = <<>> /\ out_file = <<>>
        /\ pc = "exited" => (exit_code # <<>> /\ exit_code[1] # 0 /\ stderr # <<>>)

\* C6 happens: the root path is a file and the process has exited
C6_Witness ==
    root = "file" /\ pc = "exited" /\ exit_code = <<2>>

\* C7: a run over the tree of an earlier run yields the same multiset of
\* violations and the same files_scanned as that run.
C7_RunsAgree ==
    (pc \in {"output", "exit", "exited"} /\ result # <<>>) =>
        \A h \in DOMAIN history :
            history[h] # <<>> =>
                LET now == result[1].violations
                    then == history[h][1].violations
                    Count(list, v) == Cardinality({i \in DOMAIN list : list[i] = v})
                IN  /\ result[1].files_scanned = history[h][1].files_scanned
                    /\ \A i \in DOMAIN now : Count(now, now[i]) = Count(then, now[i])
                    /\ \A i \in DOMAIN then : Count(now, then[i]) = Count(then, then[i])

\* C7 happens: the second run returned, over two files or more, with violations
C7_Witness ==
    /\ run = 2 /\ pc = "output"
    /\ history # <<>> /\ history[1] # <<>>
    /\ Len(files) >= 2
    /\ result[1].violations # <<>>

\* C8: the violations of a file are those its path and content alone give,
\* whatever the other files of the tree are, and every violation is of a file
\* that was found.
C8_FileLocal ==
    (pc = "output" /\ result # <<>>) =>
        /\ \A k \in DOMAIN files :
              SelectSeq(result[1].violations, LAMBDA v : v.file_path = str(files[k]))
                = IF fs[files[k]].kind = "text"
                  THEN AuditLines(SplitOn(fs[files[k]].content, "\n"), 1, str(files[k]),
                                  fs[files[k]].content, AuditResult).violations
                  ELSE <<>>
        /\ \A i \in DOMAIN result[1].violations :
              \E k \in DOMAIN files : result[1].violations[i].file_path = str(files[k])

\* C8 happens: run_audit returned over three files, the first with a Critical
\* and a later one with violations of its own
C8_Witness ==
    /\ pc = "output"
    /\ Len(files) = 3
    /\ \E n \in DOMAIN result[1].violations :
          /\ result[1].violations[n].file_path = str(files[1])
          /\ result[1].violations[n].severity = "critical"
    /\ \E n \in DOMAIN result[1].violations : result[1].violations[n].file_path = str(files[3])

\* C9: with the files audited apart, each into a list of its own, and the lists
\* concatenated in any order, the total, Critical, Warning and per-category
\* counts and the status are those of the sequential run.
C9_MergeOrderFree ==
    (pc = "output" /\ result # <<>>) =>
        LET private == <<>> \o [k \in DOMAIN files |-> audit_file(files[k], AuditResult).violations]
        IN  \A order \in Perms(DOMAIN files) :
                LET cat[n \in 0..Len(order)] ==
                        IF n = 0 THEN <<>> ELSE cat[n - 1] \o private[order[n]]
                    merged == [violations |-> cat[Len(order)], files_scanned |-> Len(files)]
                IN  /\ total_violations(merged) = total_violations(result[1])
                    /\ critical_count(merged) = critical_count(result[1])
                    /\ warning_count(merged) = warning_count(result[1])
                    /\ violations_by_category(merged) = violations_by_category(result[1])
                    /\ ExitStatus(merged) = ExitStatus(result[1])
                    /\ StatusLine(merged) = StatusLine(result[1])

\* C9 happens: run_audit returned over three files, one with Warnings only
\* and another with a Critical
C9_Witness ==
    /\ pc = "output"
    /\ Len(files) = 3
    /\ \E a \in DOMAIN files : \E b \in DOMAIN files :
          /\ critical_count(audit_file(files[a], AuditResult)) = 0
          /\ warning_count(audit_file(files[a], AuditResult)) > 0
          /\ critical_count(audit_file(files[b], AuditResult)) > 0

\* C10: violations_by_category of the structured report has a key for each of
\* the six categories, those that count zero too; each value is the number of
\* violations of the category, and the values sum to total_violations.
C10_EveryCategoryCounted ==
    result # <<>> =>
        LET doc == IF out_file # <<>> THEN out_file[1]
                   ELSE IF stdout # <<>> /\ stdout[1].kind = "json" THEN stdout[1].doc
                   ELSE to_dict(result[1])
            by == doc.summary.violations_by_category
            vs == result[1].violations
            sum[n \in 0..Len(CategorySeq)] ==
                IF n = 0 THEN 0 ELSE sum[n - 1] + by[CategorySeq[n]]
        IN  /\ DOMAIN by = Category
            /\ Cardinality(DOMAIN by) = 6
            /\ \A c \in Category : by[c] = Cardinality({i \in DOMAIN vs : vs[i].category = c})
            /\ sum[Len(CategorySeq)] = doc.summary.total_violations
            /\ doc.summary.total_violations = Len(vs)

\* C10 happens: the JSON document was printed with a category that counts
\* zero and one that does not
C10_Witness ==
    /\ stdout # <<>> /\ stdout[1].kind = "json"
    /\ \E c \in Category : stdout[1].doc.summary.violations_by_category[c] = 0
    /\ \E c \in Category : stdout[1].doc.summary.violations_by_category[c] > 0

\* C11: in the human report, whatever the order of the list (as inserted, or
\* reversed), every violation appears exactly once, in the one section of its
\* file_path, and the entries of a section are in ascending line_number order.
C11_ReportGroupsAndSorts ==
    (pc = "output" /\ result # <<>>) =>
        LET vs == result[1].violations
            reversed == [i \in DOMAIN vs |-> vs[Len(vs) + 1 - i]]
            Key(e) == <<e.line_number, e.rule, e.message>>
            Grouped(list) ==
                LET sections == print_cli_report([result[1] EXCEPT !.violations = list]).sections
                IN  /\ \A i \in DOMAIN list :
                          Cardinality({k \in DOMAIN sections :
                                          sections[k].file_path = list[i].file_path}) = 1
                    /\ \A k \in DOMAIN sections :
                          LET own == SelectSeq(list, LAMBDA v : v.file_path = sections[k].file_path)
                              entries == sections[k].entries
                          IN  /\ Len(entries) = Len(own)
                              /\ Len(own) > 0
                              /\ \A j \in DOMAIN own :
                                    Cardinality({n \in DOMAIN entries : Key(entries[n]) = Key(own[j])})
                                      = Cardinality({n \in DOMAIN own : Key(own[n]) = Key(own[j])})
                              /\ \A j \in 1..(Len(entries) - 1) :
                                    entries[j].line_number <= entries[j + 1].line_number
        IN  Grouped(vs) /\ Grouped(reversed)

\* C11 happens: run_audit returned with the violations of two files, one of
\* them with violations on two lines
C11_Witness ==
    /\ pc = "output"
    /\ result # <<>>
    /\ \E i \in DOMAIN result[1].violations : \E j \in DOMAIN result[1].violations :
          /\ result[1].violations[i].file_path = result[1].violations[j].file_path
          /\ result[1].violations[i].line_number < result[1].violations[j].line_number
    /\ \E i \in DOMAIN result[1].violations : \E j \in DOMAIN result[1].violations :
          result[1].violations[i].file_path # result[1].violations[j].file_path

(***************************************************************************)
(* C12.  In every Result the rule of a violation determines its category:  *)
(* no two collected violations carry the same rule with different          *)
(* categories, and each rule goes with the one category the checks give it *)
(* (several rules may share a category).                                   *)
(***************************************************************************)
C12_RuleDeterminesCategory ==
    LET category_of == [rule \in {"invalid_breakpoint", "breakpoint_order"} |-> "breakpoint_compliance"]
                       @@ [rule \in {"hardcoded_px_value", "inline_style_px"} |-> "hardcoded_size"]
                       @@ [rule \in {"position_no_responsive", "overflow_hidden_layout",
                                     "h_screen_no_responsive"} |-> "layout_antipattern"]
                       @@ [rule \in {"grid_cols_no_responsive"} |-> "responsive_coverage"]
                       @@ [rule \in {"flex_row_no_base", "grid_no_escalation"} |-> "flex_grid_pattern"]
                       @@ [rule \in {"inline_style_layout", "inline_style_html", "style_block",
                                     "custom_media_query"} |-> "inline_style"]
    IN  result # <<>> =>
            LET violations == result[1].violations
            IN  /\ \A i \in DOMAIN violations : \A j \in DOMAIN violations :
                      violations[i].rule = violations[j].rule
                          => violations[i].category = violations[j].category
                /\ \A i \in DOMAIN violations :
                      /\ violations[i].rule \in DOMAIN category_of
                      /\ violations[i].category = category_of[violations[i].rule]

\* C12 happens: the checks of a line collected the same rule twice and two
\* rules of one category
C12_Witness ==
    /\ pc = "checked"
    /\ \E i \in DOMAIN result[1].violations : \E j \in DOMAIN result[1].violations :
          /\ i # j
          /\ result[1].violations[i].rule = result[1].violations[j].rule
    /\ \E i \in DOMAIN result[1].violations : \E j \in DOMAIN result[1].violations :
          /\ result[1].violations[i].rule # result[1].violations[j].rule
          /\ result[1].violations[i].category = result[1].violations[j].category

(***************************************************************************)
(* C13.  The extractor returns the values of all class attributes of the   *)
(* line, in the left-to-right order of the attributes' positions, whatever *)
(* conventions the line mixes, and the empty sequence when no attribute    *)
(* matches.  An attribute is at position p when one of the six conventions *)
(* matches the line from p on.                                             *)
(***************************************************************************)
C13_ExtractsLeftToRight ==
    extracted # <<>> =>
        LET classes == extracted[1]
            at(p) == {k \in DOMAIN class_patterns :
                         Match(class_patterns[k], text_line, p, <<0, 0>>, FALSE).found}
            positions == {p \in DOMAIN text_line : at(p) # {}}
            value(p) == LET m == Match(class_patterns[Min(at(p))], text_line, p, <<0, 0>>, FALSE)
                        IN  SubSeq(text_line, m.g[1], m.g[2] - 1)
        IN  /\ \A p \in positions : In(value(p), classes)
            /\ \A i \in DOMAIN classes : \E p \in positions : value(p) = classes[i]
            /\ \A p \in positions : \A q \in positions :
                  p < q /\ value(p) # value(q)
                      => index(classes, value(p)) < index(classes, value(q))
            /\ positions = {} => classes = <<>>

(***************************************************************************)
(* C14.  A line whose class strings hold exactly one class token with a    *)
(* disallowed breakpoint prefix or disallowed arbitrary min/max syntax     *)
(* (2xl:hidden, xs:flex, max-md:flex, max-2xl:hidden, min-[640px]:flex)    *)
(* gets exactly one Critical invalid_breakpoint violation.                 *)
(***************************************************************************)
C14_OneViolationPerDisallowedToken ==
    pc = "checked" =>
        LET tokens == split(join(<<" ">>, extracted[1]))
            disallowed == {j \in DOMAIN tokens :
                              \E k \in DOMAIN INVALID_BREAKPOINT_PATTERNS :
                                  search(INVALID_BREAKPOINT_PATTERNS[k], tokens[j], FALSE)}
            emitted == {i \in DOMAIN result[1].violations :
                           /\ result[1].violations[i].rule = "invalid_breakpoint"
                           /\ result[1].violations[i].severity = "critical"}
        IN  Cardinality(disallowed) = 1 => Cardinality(emitted) = 1

(***************************************************************************)
(* Breakpoint-like tokens, as the specification of the rules speaks of     *)
(* them: a class token whose prefix, the text before its first colon, is a *)
(* screen-size name (xs, sm, md, lg, xl, or a digit and xl), alone or      *)
(* after max- or min-, or which starts an arbitrary min-[..] / max-[..].   *)
(***************************************************************************)
BreakpointPrefix(token) ==
    LET colons == {i \in DOMAIN token : token[i] = ":"}
    IN  IF colons = {} THEN <<>> ELSE SubSeq(token, 1, Min(colons) - 1)

BreakpointLike(token) ==
    LET sizes == {<<"x", "s">>, <<"s", "m">>, <<"m", "d">>, <<"l", "g">>, <<"x", "l">>}
                 \cup {<<d, "x", "l">> : d \in Digits \ {"0", "1"}}
        prefix == BreakpointPrefix(token)
    IN  \/ prefix \in sizes
        \/ \E size \in sizes : prefix \in {<<"m", "a", "x", "-">> \o size, <<"m", "i", "n", "-">> \o size}
        \/ startswith(token, <<"m", "i", "n", "-", "[">>)
        \/ startswith(token, <<"m", "a", "x", "-", "[">>)

(***************************************************************************)
(* C15.  The allowed breakpoint prefixes are exactly sm, md, lg, xl: a     *)
(* line with a class token carrying any other breakpoint-like prefix gets  *)
(* a Critical invalid_breakpoint violation, and a line whose class tokens  *)
(* carry allowed prefixes only gets none.                                  *)
(***************************************************************************)
C15_ExactlyFourAllowed ==
    pc = "checked" /\ extracted[1] # <<>> =>
        LET tokens == split(join(<<" ">>, extracted[1]))
            illegal == {j \in DOMAIN tokens :
                           /\ BreakpointLike(tokens[j])
                           /\ BreakpointPrefix(tokens[j]) \notin ALLOWED_BREAKPOINTS}
            reported == \E i \in DOMAIN result[1].violations :
                            /\ result[1].violations[i].rule = "invalid_breakpoint"
                            /\ result[1].violations[i].severity = "critical"
        IN  reported <=> illegal # {}

(***************************************************************************)
(* C16.  A line without a breakpoint-like class token gets no violation    *)
(* from the breakpoint rules: no invalid_breakpoint and no                 *)
(* breakpoint_order.                                                       *)
(***************************************************************************)
C16_NoBreakpointTokenNoViolation ==
    pc = "checked" =>
        LET tokens == split(join(<<" ">>, extracted[1]))
        IN  (\A j \in DOMAIN tokens : ~BreakpointLike(tokens[j]))
                => \A i \in DOMAIN result[1].violations :
                       result[1].violations[i].rule \notin {"invalid_breakpoint", "breakpoint_order"}

(***************************************************************************)
(* C17.  For token groups of pairwise distinct class tokens, the number of *)
(* breakpoint_order Warnings is the number of base utilities for which a   *)
(* later token has a strictly smaller rank (sm < md < lg < xl) than an     *)
(* earlier token of the same utility: one Warning per such utility, citing *)
(* it, not one per out-of-order pair, and none when every utility's        *)
(* breakpoints appear in non-decreasing rank.                              *)
(***************************************************************************)
C17_OneWarningPerUtility ==
    pc = "checked" =>
        LET groups == extracted[1]
            tokens(g) == split(groups[g])
            prefixed(token) == BreakpointPrefix(token) \in ALLOWED_BREAKPOINTS
            rank(token) == CHOOSE k \in DOMAIN BREAKPOINT_ORDER :
                               BREAKPOINT_ORDER[k] = BreakpointPrefix(token)
            base(token) == SubSeq(token, Len(BreakpointPrefix(token)) + 2, Len(token))
            descending(g) == {base(tokens(g)[j]) : j \in
                                 {j \in DOMAIN tokens(g) :
                                     /\ prefixed(tokens(g)[j])
                                     /\ \E i \in 1..(j - 1) :
                                           /\ prefixed(tokens(g)[i])
                                           /\ base(tokens(g)[i]) = base(tokens(g)[j])
                                           /\ rank(tokens(g)[j]) < rank(tokens(g)[i])}}
            expected ==
                        UNION {{<<g, utility>> : utility \in descending(g)} : g \in DOMAIN groups}
            emitted == {i \in DOMAIN result[1].violations :
                           result[1].violations[i].rule = "breakpoint_order"}
            distinct == \A g \in DOMAIN groups : \A i \in DOMAIN tokens(g) : \A j \in DOMAIN tokens(g) :
                            tokens(g)[i] = tokens(g)[j] => i = j
        IN  distinct =>
                /\ Cardinality(emitted) = Cardinality(expected)
                /\ \A i \in emitted : result[1].violations[i].severity = "warning"
                /\ {result[1].violations[i].message.arg : i \in emitted}
                       = UNION {descending(g) : g \in DOMAIN groups}

\* C17 happens: the checks ran on a group of distinct tokens in which one
\* utility has two out-of-order pairs, and a Warning was emitted
C17_Witness ==
    /\ pc = "checked"
    /\ Len(extracted[1]) = 1
    /\ LET tokens == split(extracted[1][1])
       IN  /\ \A i \in DOMAIN tokens : \A j \in DOMAIN tokens : tokens[i] = tokens[j] => i = j
           /\ \E i \in DOMAIN tokens : \E j \in DOMAIN tokens : \E k \in DOMAIN tokens :
                 /\ i < j /\ j < k
                 /\ tokens[i] = <<"l", "g", ":", "f", "l", "e", "x">>
                 /\ tokens[j] = <<"m", "d", ":", "f", "l", "e", "x">>
                 /\ tokens[k] = <<"s", "m", ":", "f", "l", "e", "x">>
    /\ \E i \in DOMAIN result[1].violations : result[1].violations[i].rule = "breakpoint_order"

(***************************************************************************)
(* C18.  The hardcoded-size check emits exactly one hardcoded_px_value     *)
(* Warning per distinct utility family (w, h, min-w, max-w, min-h, max-h,  *)
(* gap, p, m, top, right, bottom, left) that occurs on the line with a     *)
(* bracketed pixel value, citing that family; a line whose only            *)
(* arbitrary-pixel utility is one class token yields exactly one.          *)
(***************************************************************************)
C18_OneWarningPerFamily ==
    pc = "checked" =>
        LET tokens == split(join(<<" ">>, extracted[1]))
            families == {<<"w">>, <<"h">>, <<"m", "i", "n", "-", "w">>, <<"m", "a", "x", "-", "w">>, <<"m", "i", "n", "-", "h">>, <<"m", "a", "x", "-", "h">>, <<"g", "a", "p">>,
                         <<"p">>, <<"m">>, <<"t", "o", "p">>, <<"r", "i", "g", "h", "t">>, <<"b", "o", "t", "t", "o", "m">>, <<"l", "e", "f", "t">>}
            is_px(token, family) ==
                /\ startswith(token, family \o <<"-", "[">>)
                /\ endswith(token, <<"p", "x", "]">>)
                /\ isdigit(SubSeq(token, Len(family) + 3, Len(token) - 3))
            occurring == {family \in families : \E j \in DOMAIN tokens : is_px(tokens[j], family)}
            emitted == {i \in DOMAIN result[1].violations :
                           result[1].violations[i].rule = "hardcoded_px_value"}
        IN  /\ Cardinality(emitted) = Cardinality(occurring)
            /\ \A i \in emitted : result[1].violations[i].severity = "warning"
            /\ {result[1].violations[i].message.arg : i \in emitted}
                   = {family \o <<"-", "[", "p", "x", "]">> : family \in occurring}

(***************************************************************************)
(* C19.  A line with an inline style declaration, of the markup-attribute  *)
(* or the object-literal form, that sets a pixel-valued width or height    *)
(* gets exactly one Critical inline_style_px violation, whether the style  *)
(* sets width, height or both, and whether or not hardcoded_px_value       *)
(* Warnings fire on the same line.                                         *)
(***************************************************************************)
C19_OneInlineStylePxPerLine ==
    pc = "checked" =>
        LET sets_px == \E k \in DOMAIN INLINE_STYLE_PX_PATTERNS :
                           search(INLINE_STYLE_PX_PATTERNS[k], text_line, TRUE)
            emitted == {i \in DOMAIN result[1].violations :
                           /\ result[1].violations[i].rule = "inline_style_px"
                           /\ result[1].violations[i].severity = "critical"}
        IN  sets_px => Cardinality(emitted) = 1

(***************************************************************************)
(* C20.  A line with an object-literal inline style (style={{...}}) that   *)
(* sets one or more layout properties (width, height, display, position,   *)
(* flex, grid, margin, padding) gets exactly one Critical                  *)
(* inline_style_layout violation, whose message names one property only:   *)
(* the first of that list which the style sets.                            *)
(***************************************************************************)
C20_OneInlineStyleLayout ==
    pc = "checked" =>
        LET layout == <<<<"w", "i", "d", "t", "h">>, <<"h", "e", "i", "g", "h", "t">>, <<"d", "i", "s", "p", "l", "a", "y">>, <<"p", "o", "s", "i", "t", "i", "o", "n">>,
                        <<"f", "l", "e", "x">>, <<"g", "r", "i", "d">>, <<"m", "a", "r", "g", "i", "n">>, <<"p", "a", "d", "d", "i", "n", "g">>>>
            opening == <<"s", "t", "y", "l", "e", "=", "{", "{">>
            opens == {i \in DOMAIN text_line :
                         /\ i + Len(opening) - 1 <= Len(text_line)
                         /\ SubSeq(text_line, i, i + Len(opening) - 1) = opening}
            from == Min(opens) + Len(opening)
            to == Min({j \in from..Len(text_line) : text_line[j] = "}"})
            decls == SplitOn(SubSeq(text_line, from, to - 1), ",")
            keys == {strip(SubSeq(decls[d], 1, Min({i \in DOMAIN decls[d] : decls[d][i] = ":"}) - 1)) :
                        d \in {d \in DOMAIN decls : \E i \in DOMAIN decls[d] : decls[d][i] = ":"}}
            set == {k \in DOMAIN layout : layout[k] \in keys}
            emitted == {i \in DOMAIN result[1].violations :
                           result[1].violations[i].rule = "inline_style_layout"}
        IN  opens # {} /\ set # {} =>
                /\ Cardinality(emitted) = 1
                /\ \A i \in emitted :
                      /\ result[1].violations[i].severity = "critical"
                      /\ result[1].violations[i].message.arg = layout[Min(set)]

\* C20 happens: the checks ran on a line whose object-literal style sets two
\* layout properties, height written before width, and reported it
C20_Witness ==
    /\ pc = "checked"
    /\ text_line = <<"<", "d", "i", "v", " ", "s", "t", "y", "l", "e", "=", "{", "{", "h", "e", "i", "g", "h", "t", ":", " ", "'", "1", "0", "p", "x", "'", ",", " ", "w", "i", "d", "t", "h", ":", " ", "'", "1", "2", "0", "p", "x", "'", "}", "}", ">">>
    /\ \E i \in DOMAIN result[1].violations :
          /\ result[1].violations[i].rule = "inline_style_layout"
          /\ result[1].violations[i].message.arg = <<"w", "i", "d", "t", "h">>

C23_LegalityScopedToGroups ==
    pc = "checked" =>
        LET groups == extracted[1]
            inside == \E g \in DOMAIN groups : \E k \in DOMAIN INVALID_BREAKPOINT_PATTERNS :
                          search(INVALID_BREAKPOINT_PATTERNS[k], groups[g], FALSE)
            reported == \E i \in DOMAIN result[1].violations :
                            result[1].violations[i].rule = "invalid_breakpoint"
        IN  reported => inside

(***************************************************************************)
(* C24.  position_no_responsive is emitted for a token group exactly when  *)
(* the group holds absolute or fixed and no positioning utility (absolute, *)
(* fixed, relative, sticky, static) with an sm/md/lg/xl prefix; at most    *)
(* once per group, naming absolute when both absolute and fixed are there. *)
(***************************************************************************)
C24_PositionNoResponsive ==
    pc = "checked" =>
        LET groups == extracted[1]
            tokens(g) == split(groups[g])
            positioning == {<<"a", "b", "s", "o", "l", "u", "t", "e">>, <<"f", "i", "x", "e", "d">>, <<"r", "e", "l", "a", "t", "i", "v", "e">>, <<"s", "t", "i", "c", "k", "y">>, <<"s", "t", "a", "t", "i", "c">>}
            responsive(g) == \E j \in DOMAIN tokens(g) :
                                 \E bp \in {<<"s", "m">>, <<"m", "d">>, <<"l", "g">>, <<"x", "l">>} : \E utility \in positioning :
                                     tokens(g)[j] = bp \o <<":">> \o utility
            flagged == {g \in DOMAIN groups :
                           /\ In(<<"a", "b", "s", "o", "l", "u", "t", "e">>, tokens(g)) \/ In(<<"f", "i", "x", "e", "d">>, tokens(g))
                           /\ ~responsive(g)}
            emitted == {i \in DOMAIN result[1].violations :
                           result[1].violations[i].rule = "position_no_responsive"}
        IN  /\ Cardinality(emitted) = Cardinality(flagged)
            /\ \A i \in emitted : \E g \in flagged :
                  /\ result[1].violations[i].snippet = Prefix(groups[g], 80)
                  /\ result[1].violations[i].message.arg
                         = IF In(<<"a", "b", "s", "o", "l", "u", "t", "e">>, tokens(g)) THEN <<"a", "b", "s", "o", "l", "u", "t", "e">> ELSE <<"f", "i", "x", "e", "d">>

(***************************************************************************)
(* C25.  grid_cols_no_responsive is emitted for a token group exactly when *)
(* the group holds a grid-cols utility with a numeric column count greater *)
(* than one and no breakpoint-prefixed grid-cols utility; at most once per *)
(* group, and never for a group whose only grid-cols utilities have count  *)
(* 1 or a bracketed arbitrary value.                                       *)
(***************************************************************************)
C25_GridColsNoResponsive ==
    pc = "checked" =>
        LET groups == extracted[1]
            tokens(g) == split(groups[g])
            count(token) == SubSeq(token, Len(<<"g", "r", "i", "d", "-", "c", "o", "l", "s", "-">>) + 1, Len(token))
            several(g) == \E j \in DOMAIN tokens(g) :
                              /\ startswith(tokens(g)[j], <<"g", "r", "i", "d", "-", "c", "o", "l", "s", "-">>)
                              /\ isdigit(count(tokens(g)[j]))
                              /\ int(count(tokens(g)[j])) > 1
            scoped(g) == \E j \in DOMAIN tokens(g) :
                             \E bp \in {<<"s", "m">>, <<"m", "d">>, <<"l", "g">>, <<"x", "l">>} :
                                 startswith(tokens(g)[j], bp \o <<":", "g", "r", "i", "d", "-", "c", "o", "l", "s", "-">>)
            flagged == {g \in DOMAIN groups : several(g) /\ ~scoped(g)}
            emitted == {i \in DOMAIN result[1].violations :
                           result[1].violations[i].rule = "grid_cols_no_responsive"}
        IN  /\ Cardinality(emitted) = Cardinality(flagged)
            /\ \A i \in emitted : \E g \in flagged :
                  result[1].violations[i].snippet = Prefix(groups[g], 80)

(***************************************************************************)
(* C26.  The markup-attribute check (style="...") uses the layout property *)
(* list of the object-literal check: a line whose markup style attribute   *)
(* sets one of width, height, display, position, flex, grid, margin,       *)
(* padding gets exactly one Critical violation, with rule                  *)
(* inline_style_html.                                                      *)
(***************************************************************************)
C26_HtmlStyleSameProperties ==
    pc = "checked" =>
        LET layout == {<<"w", "i", "d", "t", "h">>, <<"h", "e", "i", "g", "h", "t">>, <<"d", "i", "s", "p", "l", "a", "y">>, <<"p", "o", "s", "i", "t", "i", "o", "n">>,
                       <<"f", "l", "e", "x">>, <<"g", "r", "i", "d">>, <<"m", "a", "r", "g", "i", "n">>, <<"p", "a", "d", "d", "i", "n", "g">>}
            opening == <<"s", "t", "y", "l", "e", "=", "\"">>
            opens == {i \in DOMAIN text_line :
                         /\ i + Len(opening) - 1 <= Len(text_line)
                         /\ SubSeq(text_line, i, i + Len(opening) - 1) = opening}
            from == Min(opens) + Len(opening)
            to == Min({j \in from..Len(text_line) : text_line[j] = "\""})
            decls == SplitOn(SubSeq(text_line, from, to - 1), ";")
            keys == {strip(SubSeq(decls[d], 1, Min({i \in DOMAIN decls[d] : decls[d][i] = ":"}) - 1)) :
                        d \in {d \in DOMAIN decls : \E i \in DOMAIN decls[d] : decls[d][i] = ":"}}
            emitted == {i \in DOMAIN result[1].violations :
                           result[1].violations[i].rule = "inline_style_html"}
        IN  opens # {} /\ keys \cap layout # {} =>
                /\ Cardinality(emitted) = 1
                /\ \A i \in emitted : result[1].violations[i].severity = "critical"

(***************************************************************************)
(* C27.  For each line of a readable file: a line that is empty after      *)
(* trimming or begins with a comment marker gets no violation; on every    *)
(* other line the six checks run in their fixed order.  Every violation    *)
(* carries the 1-based index of its line in the file, skipped lines        *)
(* counted.                                                                *)
(***************************************************************************)
C27_LinesSkippedAndNumbered ==
    (pc = "output" /\ result # <<>>) =>
        LET violations == result[1].violations
            unchecked(line) == \/ strip(line) = <<>>
                               \/ Prefix(strip(line), 2) \in {<<"/", "/">>, <<"/", "*">>}
            lines(k) == SplitOn(fs[files[k]].content, "\n")
            at(k, n) == SelectSeq(violations,
                            LAMBDA v : v.file_path = str(files[k]) /\ v.line_number = n)
            found(k, n) ==
                LET line == lines(k)[n]
                    path == str(files[k])
                IN  check_breakpoint_compliance(line, n, path, AuditResult).violations
                    \o check_hardcoded_sizes(line, n, path, AuditResult).violations
                    \o check_layout_antipatterns(line, n, path, fs[files[k]].content, AuditResult).violations
                    \o check_responsive_coverage(line, n, path, AuditResult).violations
                    \o check_flex_grid_patterns(line, n, path, AuditResult).violations
                    \o check_inline_styles(line, n, path, AuditResult).violations
        IN  /\ \A i \in DOMAIN violations : \E k \in DOMAIN files :
                  /\ violations[i].file_path = str(files[k])
                  /\ fs[files[k]].kind = "text"
                  /\ violations[i].line_number \in DOMAIN lines(k)
                  /\ ~unchecked(lines(k)[violations[i].line_number])
            /\ \A k \in DOMAIN files : fs[files[k]].kind = "text" =>
                  \A n \in DOMAIN lines(k) :
                      at(k, n) = IF unchecked(lines(k)[n]) THEN <<>> ELSE found(k, n)

\* C27 happens: run_audit returned with a violation on a line that follows a
\* skipped line, from a walk that also met a comment line
C27_Witness ==
    /\ pc = "output"
    /\ \E i \in DOMAIN result[1].violations : \E k \in DOMAIN files :
          /\ result[1].violations[i].file_path = str(files[k])
          /\ result[1].violations[i].line_number = 2
          /\ strip(SplitOn(fs[files[k]].content, "\n")[1]) = <<>>
    /\ \E k \in DOMAIN files : fs[files[k]].kind = "text" /\ fs[files[k]].content = TextClean

(***************************************************************************)
(* C28.  The violations of a Result are in discovery order.  add_violation *)
(* only appends: a step of the audit leaves the earlier entries where they *)
(* were and files_scanned as it was, and what it adds is of the file being *)
(* audited.  So the line numbers within one file's contribution never      *)
(* decrease, and the violations of a file are contiguous, the files in the *)
(* walker's order.                                                         *)
(***************************************************************************)
C28_DiscoveryOrder ==
    [][(pc = "audit_file" /\ pc' = "audit_file" /\ idx' = idx + 1) =>
          LET old == result[1].violations
              new == result'[1].violations
              position(v) == CHOOSE k \in DOMAIN files : str(files[k]) = v.file_path
          IN  /\ Len(new) >= Len(old)
              /\ SubSeq(new, 1, Len(old)) = old
              /\ result'[1].files_scanned = result[1].files_scanned
              /\ \A i \in (Len(old) + 1)..Len(new) : new[i].file_path = str(files[idx])
              /\ \A i \in DOMAIN new : \A j \in DOMAIN new :
                    i < j => /\ position(new[i]) <= position(new[j])
                             /\ new[i].file_path = new[j].file_path
                                    => new[i].line_number <= new[j].line_number
              /\ \A i \in DOMAIN new :
                    LET more == add_violation(result'[1], new[i])
                    IN  /\ more.violations = Append(new, new[i])
                        /\ more.files_scanned = result'[1].files_scanned
      ]_vars

\* C28 happens: the audit is past its second file, with violations of two
\* files in the list, one of them with violations on two lines
C28_Witness ==
    /\ pc = "audit_file"
    /\ idx >= 3
    /\ \E i \in DOMAIN result[1].violations : \E j \in DOMAIN result[1].violations :
          /\ result[1].violations[i].file_path # result[1].violations[j].file_path
    /\ \E i \in DOMAIN result[1].violations : \E j \in DOMAIN result[1].violations :
          /\ result[1].violations[i].file_path = result[1].violations[j].file_path
          /\ result[1].violations[i].line_number # result[1].violations[j].line_number

(***************************************************************************)
(* C29.  After any sequence of add_violation calls total_violations is     *)
(* critical_count + warning_count, and one more add_violation raises       *)
(* total_violations by exactly one and exactly one of critical_count and   *)
(* warning_count by one, the other staying as it was; also when the        *)
(* violation added is one the list already holds.                          *)
(***************************************************************************)
C29_CountsAddUp ==
    result # <<>> =>
        LET r == result[1]
            fresh == {Violation(<<"f">>, 1, cat, sev, "rule", <<>>, Msg("message", <<>>)) :
                         cat \in Category, sev \in Severity}
            held == {r.violations[i] : i \in DOMAIN r.violations}
        IN  /\ total_violations(r) = critical_count(r) + warning_count(r)
            /\ \A v \in fresh \cup held :
                  LET more == add_violation(r, v) IN
                  /\ total_violations(more) = total_violations(r) + 1
                  /\ total_violations(more) = critical_count(more) + warning_count(more)
                  /\ v.severity = "critical" =>
                        /\ critical_count(more) = critical_count(r) + 1
                        /\ warning_count(more) = warning_count(r)
                  /\ v.severity = "warning" =>
                        /\ warning_count(more) = warning_count(r) + 1
                        /\ critical_count(more) = critical_count(r)

\* C29 happens: the checks of a line added the same violation twice, and a
\* Warning next to a Critical
C29_Witness ==
    /\ pc = "checked"
    /\ critical_count(result[1]) > 0
    /\ warning_count(result[1]) > 0
    /\ \E i \in DOMAIN result[1].violations : \E j \in DOMAIN result[1].violations :
          i # j /\ result[1].violations[i] = result[1].violations[j]

(***************************************************************************)
(* C30.  Each class attribute of a line yields exactly one token group,    *)
(* whichever quoting convention it uses (double quotes, single quotes,     *)
(* braces with a quoted string, braces with a template literal): no value  *)
(* is extracted twice, so a per-group rule fires at most once for one      *)
(* attribute.                                                              *)
(***************************************************************************)
C30_OneGroupPerAttribute ==
    extracted # <<>> =>
        LET attributes == {p \in DOMAIN text_line : \E k \in DOMAIN class_patterns :
                              Match(class_patterns[k], text_line, p, <<0, 0>>, FALSE).found}
            fired(rule) == {i \in DOMAIN result[1].violations : result[1].violations[i].rule = rule}
        IN  /\ Len(extracted[1]) = Cardinality(attributes)
            /\ pc = "checked" =>
                  \A rule \in {"flex_row_no_base", "grid_no_escalation", "grid_cols_no_responsive",
                               "position_no_responsive"} :
                      Cardinality(fired(rule)) <= Cardinality(attributes)

=============================================================================
